---- MODULE Spec2Model ----
(***************************************************************************)
(* Verification model of xshuttle: the indexed node container of the       *)
(* settings crate (crates/settings/src/nodes.rs), the config loader        *)
(* (crates/settings/src/sources/config.rs, crates/settings/src/types.rs)   *)
(* and the tray application's event handling (src/xshuttle.rs, src/app.rs).*)
(***************************************************************************)
EXTENDS Integers, Sequences, FiniteSets, TLC

\* ------------------------------------------------------------------------
\* Bounds of the model
\* ------------------------------------------------------------------------

\* Largest number of entries (Actions plus Groups, at any depth) of an input
\* entry tree.
MaxNodes == 4

\* Largest number of host names handed to from_hostnames.
MaxHosts == 2

\* Largest number of entry values (at any depth) under "actions" in an input
\* document.
MaxJsonNodes == 2

\* Largest number of menu events waiting to be handled.
MaxQueue == 2

MaxMenuNodes == 3

MaxInstalled == 2

Range(f) == {f[i] : i \in DOMAIN f}

\* Then applied to the value of v, which is computed once.
Once(v, Then(_)) == CHOOSE r \in {Then(x) : x \in {v}} : TRUE

\* ------------------------------------------------------------------------
\* Option<T>
\* ------------------------------------------------------------------------

None == [some |-> FALSE]

Some(v) == [some |-> TRUE, value |-> v]

\* ------------------------------------------------------------------------
\* crates/settings/src/types.rs, host.rs: Action, Group, Entry, Host
\* ------------------------------------------------------------------------

\* struct Action { name, cmd }
Action(n, c) == [name |-> n, cmd |-> c]

\* Entry::Action(action)
EntryAction(a) == [kind |-> "Action", action |-> a]

\* Entry::Group(Group { name, entries })
EntryGroup(n, es) == [kind |-> "Group", name |-> n, entries |-> es]

\* struct Host { hostname }
Host(h) == [hostname |-> h]

\* The Action values the inputs are drawn from: two share a name and differ
\* in cmd, two share a cmd and differ in name.
ActionValues == {Action("a", "x"), Action("a", "y"), Action("b", "x")}

GroupNames == {"G", "H"}

HostNameValues == {"h1", "h2"}

RECURSIVE EntriesOfSize(_), EntryOfSize(_)

\* The entries made of exactly k Actions and Groups.
EntryOfSize(k) ==
    IF k = 1
    THEN {EntryAction(a) : a \in ActionValues}
         \cup {EntryGroup(g, <<>>) : g \in GroupNames}
    ELSE {EntryGroup(g, f) : g \in GroupNames, f \in EntriesOfSize(k - 1)}

\* The entry sequences (Vec<Entry>) made of exactly n Actions and Groups.
EntriesOfSize(n) ==
    IF n = 0
    THEN {<<>>}
    ELSE UNION {{<<t>> \o f : t \in EntryOfSize(k), f \in EntriesOfSize(n - k)}
                : k \in 1..n}

\* Every Vec<Entry> of at most max entries: any nesting of Actions and
\* Groups, empty Groups included.
EntryTrees(max) == UNION {EntriesOfSize(n) : n \in 0..max}

\* Every Vec<String> of at most MaxHosts host names.
HostLists == UNION {[1..n -> HostNameValues] : n \in 0..MaxHosts}

\* ------------------------------------------------------------------------
\* crates/settings/src/nodes.rs: NodeId, Node<T>, Nodes<T>
\* ------------------------------------------------------------------------

\* NodeId::from_index / NodeId::index: a NodeId is its index.
from_index(index) == index

index(id) == id

\* Node::Leaf { id, value }
Leaf(id, value) == [kind |-> "Leaf", id |-> id, value |-> value]

\* Node::Group { name, children }
GroupNode(name, children) == [kind |-> "Group", name |-> name, children |-> children]

RECURSIVE convert_entry(_, _), convert_entries(_, _)

\* A bug convert_entry could have: an Action whose name the table already
\* holds is given the id of the first one and is not pushed again.
convert_entry_dedup(entry, leaves) ==
    IF entry.kind = "Action"
    THEN IF \E i \in DOMAIN leaves : leaves[i].name = entry.action.name
         THEN [node   |-> Leaf(from_index((CHOOSE i \in DOMAIN leaves :
                                              leaves[i].name = entry.action.name) - 1),
                               entry.action),
               leaves |-> leaves]
         ELSE [node   |-> Leaf(from_index(Len(leaves)), entry.action),
               leaves |-> Append(leaves, entry.action)]
    ELSE LET r == convert_entries(entry.entries, leaves)
         IN  [node |-> GroupNode(entry.name, r.nodes), leaves |-> r.leaves]

\* A bug convert_entry could have: the id is taken after the push.
convert_entry_idAfterPush(entry, leaves) ==
    IF entry.kind = "Action"
    THEN [node   |-> Leaf(from_index(Len(leaves) + 1), entry.action),
          leaves |-> Append(leaves, entry.action)]
    ELSE LET r == convert_entries(entry.entries, leaves)
         IN  [node |-> GroupNode(entry.name, r.nodes), leaves |-> r.leaves]

\* Nodes<Action>::convert_entry(entry, &mut leaves): the node made for entry
\* and the flat table after it.
convert_entry(entry, leaves) ==
    IF entry.kind = "Action"
    THEN [node   |-> Leaf(from_index(Len(leaves)), entry.action),
          leaves |-> Append(leaves, entry.action)]
    ELSE LET r == convert_entries(entry.entries, leaves)
         IN  [node |-> GroupNode(entry.name, r.nodes), leaves |-> r.leaves]

\* A bug the conversion could have: a Group that converts to no children is
\* left out of the tree.
convert_entries_dropEmpty(es, leaves) ==
    IF es = <<>>
    THEN [nodes |-> <<>>, leaves |-> leaves]
    ELSE LET h == convert_entry(Head(es), leaves)
             t == convert_entries(Tail(es), h.leaves)
             keep == ~(h.node.kind = "Group" /\ h.node.children = <<>>)
         IN  [nodes  |-> (IF keep THEN <<h.node>> ELSE <<>>) \o t.nodes,
              leaves |-> t.leaves]

\* entries.into_iter().map(|e| convert_entry(e, leaves)).collect(): left to
\* right, each call seeing the table the previous ones left.
convert_entries(es, leaves) ==
    IF es = <<>>
    THEN [nodes |-> <<>>, leaves |-> leaves]
    ELSE LET h == convert_entry(Head(es), leaves)
             t == convert_entries(Tail(es), h.leaves)
         IN  [nodes |-> <<h.node>> \o t.nodes, leaves |-> t.leaves]

\* A bug from_entries could have: only the top-level Actions reach the flat
\* table.
from_entries_topOnly(entries) ==
    LET r == convert_entries(entries, <<>>)
    IN  [tree   |-> r.nodes,
         leaves |-> [i \in 1..Cardinality({j \in 1..Len(entries) : entries[j].kind = "Action"})
                       |-> r.leaves[i]]]

\* Nodes<Action>::from_entries
from_entries(entries) ==
    LET r == convert_entries(entries, <<>>)
    IN  [tree |-> r.nodes, leaves |-> r.leaves]

\* A bug from_hostnames could have: ids counted from 1.
from_hostnames_fromOne(hostnames) ==
    [tree   |-> [i \in 1..Len(hostnames) |-> Leaf(from_index(i), Host(hostnames[i]))],
     leaves |-> [i \in 1..Len(hostnames) |-> Host(hostnames[i])]]

\* Nodes<Host>::from_hostnames
from_hostnames(hostnames) ==
    [tree   |-> [i \in 1..Len(hostnames) |-> Leaf(from_index(i - 1), Host(hostnames[i]))],
     leaves |-> [i \in 1..Len(hostnames) |-> Host(hostnames[i])]]

\* A bug get could have: indexing the table (self.leaves[id.0]) instead of
\* Vec::get, which panics on an id that is out of range.
get_indexing(self, id) ==
    IF id < Len(self.leaves) THEN Some(self.leaves[id + 1]) ELSE [panic |-> TRUE]

\* Nodes::get: Vec::get on the flat table.
get(self, id) ==
    IF id < Len(self.leaves) THEN Some(self.leaves[id + 1]) ELSE None

\* A bug iter could have: ids counted from 1.
iter_fromOne(self) ==
    [i \in 1..Len(self.leaves) |-> <<from_index(i), self.leaves[i]>>]

\* Nodes::iter: the flat table enumerated from 0, as (NodeId, &T) pairs.
iter(self) ==
    [i \in 1..Len(self.leaves) |-> <<from_index(i - 1), self.leaves[i]>>]

\* Nodes::nodes
nodes(self) == self.tree

\* A bug len could have: the number of top-level tree nodes.
len_ofTree(self) == Len(self.tree)

\* Nodes::len
len(self) == Len(self.leaves)

\* A bug is_empty could have: it looks at the tree.
is_empty_ofTree(self) == self.tree = <<>>

\* Nodes::is_empty
is_empty(self) == self.leaves = <<>>

\* ------------------------------------------------------------------------
\* Result<T, E>
\* ------------------------------------------------------------------------

Ok(v) == [ok |-> TRUE, value |-> v]

Err(e) == [ok |-> FALSE, error |-> e]

\* ------------------------------------------------------------------------
\* serde_json::Value, and the text of a document as its sequence of tokens
\* ------------------------------------------------------------------------

JNull == [t |-> "null"]

JBool(b) == [t |-> "bool", b |-> b]

JNum(n) == [t |-> "num", n |-> n]

JStr(str) == [t |-> "str", s |-> str]

JArr(items) == [t |-> "arr", items |-> items]

\* An object is the sequence of its members, each key once.
JObj(members) == [t |-> "obj", members |-> members]

Member(key, value) == [k |-> key, v |-> value]

Keys(obj) == {obj.members[i].k : i \in DOMAIN obj.members}

HasKey(obj, key) == key \in Keys(obj)

\* The value of key in obj (key is one of its keys).
Field(obj, key) == (CHOOSE m \in Range(obj.members) : m.k = key).v

Punct(c) == [tok |-> c]

StrTok(str) == [tok |-> "str", s |-> str]

NumTok(n) == [tok |-> "num", n |-> n]

\* A bare word that is no JSON literal.
WordTok(w) == [tok |-> "word", s |-> w]

RECURSIVE to_tokens(_), items_to_tokens(_), members_to_tokens(_)

\* The text of a value, as serde_json writes it.
to_tokens(v) ==
    CASE v.t = "null" -> <<Punct("null")>>
      [] v.t = "bool" -> <<Punct(IF v.b THEN "true" ELSE "false")>>
      [] v.t = "num"  -> <<NumTok(v.n)>>
      [] v.t = "str"  -> <<StrTok(v.s)>>
      [] v.t = "arr"  -> <<Punct("[")>> \o items_to_tokens(v.items) \o <<Punct("]")>>
      [] v.t = "obj"  -> <<Punct("{")>> \o members_to_tokens(v.members) \o <<Punct("}")>>

items_to_tokens(items) ==
    IF items = <<>>
    THEN <<>>
    ELSE to_tokens(Head(items))
         \o (IF Tail(items) = <<>> THEN <<>> ELSE <<Punct(",")>> \o items_to_tokens(Tail(items)))

members_to_tokens(ms) ==
    IF ms = <<>>
    THEN <<>>
    ELSE <<StrTok(Head(ms).k), Punct(":")>> \o to_tokens(Head(ms).v)
         \o (IF Tail(ms) = <<>> THEN <<>> ELSE <<Punct(",")>> \o members_to_tokens(Tail(ms)))

\* The kind of the token at position p, "eof" past the end.
Tok(ts, p) == IF p <= Len(ts) THEN ts[p].tok ELSE "eof"

Parsed(v, next) == [ok |-> TRUE, value |-> v, next |-> next]

NotParsed == [ok |-> FALSE]

\* Map::insert: a repeated key keeps its place and takes the later value.
insert(members, key, value) ==
    IF \E i \in DOMAIN members : members[i].k = key
    THEN [i \in DOMAIN members |->
            IF members[i].k = key THEN Member(key, value) ELSE members[i]]
    ELSE Append(members, Member(key, value))

RECURSIVE parse_value(_, _), parse_elements(_, _, _), parse_members(_, _, _)

\* One JSON value starting at position p.
parse_value(ts, p) ==
    CASE Tok(ts, p) = "null"  -> Parsed(JNull, p + 1)
      [] Tok(ts, p) = "true"  -> Parsed(JBool(TRUE), p + 1)
      [] Tok(ts, p) = "false" -> Parsed(JBool(FALSE), p + 1)
      [] Tok(ts, p) = "num"   -> Parsed(JNum(ts[p].n), p + 1)
      [] Tok(ts, p) = "str"   -> Parsed(JStr(ts[p].s), p + 1)
      [] Tok(ts, p) = "["     ->
            IF Tok(ts, p + 1) = "]"
            THEN Parsed(JArr(<<>>), p + 2)
            ELSE parse_elements(ts, p + 1, <<>>)
      [] Tok(ts, p) = "{"     ->
            IF Tok(ts, p + 1) = "}"
            THEN Parsed(JObj(<<>>), p + 2)
            ELSE parse_members(ts, p + 1, <<>>)
      [] OTHER -> NotParsed

\* The elements of an array from position p on, up to its "]".
parse_elements(ts, p, acc) ==
    LET r == parse_value(ts, p)
    IN  IF ~r.ok THEN NotParsed
        ELSE IF Tok(ts, r.next) = "," THEN parse_elements(ts, r.next + 1, Append(acc, r.value))
        ELSE IF Tok(ts, r.next) = "]" THEN Parsed(JArr(Append(acc, r.value)), r.next + 1)
        ELSE NotParsed

\* The members of an object from position p on, up to its "}".
parse_members(ts, p, acc) ==
    IF Tok(ts, p) # "str" \/ Tok(ts, p + 1) # ":"
    THEN NotParsed
    ELSE LET r == parse_value(ts, p + 2)
         IN  IF ~r.ok THEN NotParsed
             ELSE IF Tok(ts, r.next) = ","
                  THEN parse_members(ts, r.next + 1, insert(acc, ts[p].s, r.value))
             ELSE IF Tok(ts, r.next) = "}"
                  THEN Parsed(JObj(insert(acc, ts[p].s, r.value)), r.next + 1)
             ELSE NotParsed

\* serde_json::from_str::<Value>: one value and nothing after it.
from_str(ts) ==
    LET r == parse_value(ts, 1)
    IN  IF r.ok /\ r.next = Len(ts) + 1 THEN Ok(r.value) ELSE Err("syntax")

\* ------------------------------------------------------------------------
\* assets/xshuttle.schema.json, as the specification describes it
\* ------------------------------------------------------------------------

\* ValidationError { path, message }: path is the sequence of the pointer's
\* segments, empty for the document itself.
ValidationError(path, message) == [path |-> path, message |-> message]

KeySeg(key) == [key |-> key]

IdxSeg(i) == [idx |-> i]

TopLevelKeys == {"terminal", "editor", "actions"}

RECURSIVE EntryConforms(_)

\* An entry of the schema: the Action shape (exactly name and cmd, both
\* strings) or the single-key Group shape (one key, whose value is a sequence
\* of entries).
EntryConforms(v) ==
    /\ v.t = "obj"
    /\ \/ /\ Keys(v) = {"name", "cmd"}
          /\ Field(v, "name").t = "str"
          /\ Field(v, "cmd").t = "str"
       \/ /\ Len(v.members) = 1
          /\ v.members[1].v.t = "arr"
          /\ \A i \in DOMAIN v.members[1].v.items : EntryConforms(v.members[1].v.items[i])

\* The violations of the schema in value, all of them: a document that is no
\* object; each unknown top-level key; terminal or editor that is no string;
\* actions that is no sequence; each element of actions that is no entry.
SchemaErrors(value) ==
    IF value.t # "obj"
    THEN <<ValidationError(<<>>, "is not of type object")>>
    ELSE LET unknown == SelectSeq(value.members, LAMBDA m : m.k \notin TopLevelKeys)
             items == IF HasKey(value, "actions") /\ Field(value, "actions").t = "arr"
                      THEN Field(value, "actions").items
                      ELSE <<>>
             bad == SelectSeq([i \in DOMAIN items |-> i],
                              LAMBDA i : ~EntryConforms(items[i]))
         IN  [i \in DOMAIN unknown |->
                 ValidationError(<<KeySeg(unknown[i].k)>>, "additional property not allowed")]
             \o (IF HasKey(value, "terminal") /\ Field(value, "terminal").t # "str"
                 THEN <<ValidationError(<<KeySeg("terminal")>>, "is not of type string")>>
                 ELSE <<>>)
             \o (IF HasKey(value, "editor") /\ Field(value, "editor").t # "str"
                 THEN <<ValidationError(<<KeySeg("editor")>>, "is not of type string")>>
                 ELSE <<>>)
             \o (IF HasKey(value, "actions") /\ Field(value, "actions").t # "arr"
                 THEN <<ValidationError(<<KeySeg("actions")>>, "is not of type array")>>
                 ELSE <<>>)
             \o [j \in DOMAIN bad |->
                    ValidationError(<<KeySeg("actions"), IdxSeg(bad[j] - 1)>>,
                                    "is not valid under any of the entry shapes")]

\* ------------------------------------------------------------------------
\* crates/settings/src/sources/config.rs: validate
\* ------------------------------------------------------------------------

\* ValidationResult::Valid
Valid == [valid |-> TRUE]

\* ValidationResult::Invalid(errors)
Invalid(errors) == [valid |-> FALSE, errors |-> errors]

\* A bug validate could have: it stops at the first error the validator
\* finds.
validate_firstOnly(value) ==
    LET errors == SchemaErrors(value)
    IN  IF errors = <<>> THEN Valid ELSE Invalid(<<Head(errors)>>)

\* A bug validate could have: every value is reported Valid.
validate_lenient(value) == Valid

\* validate: every error the validator iterates is collected; none is Valid.
validate(value) ==
    LET errors == SchemaErrors(value)
    IN  IF errors = <<>> THEN Valid ELSE Invalid(errors)

\* ------------------------------------------------------------------------
\* crates/settings/src/types.rs, sources/config.rs: typed deserialization
\* ------------------------------------------------------------------------

\* String
deserialize_String(v) ==
    IF v.t = "str" THEN Ok(v.s) ELSE Err("invalid type: expected a string")

\* Option<String>: null is None.
deserialize_Option_String(v) ==
    IF v.t = "null"
    THEN Ok(None)
    ELSE IF v.t = "str" THEN Ok(Some(v.s)) ELSE Err("invalid type: expected a string")

\* #[derive(Deserialize)] struct Action { name, cmd }: a map with string name
\* and cmd (other keys are ignored), or a sequence of exactly two strings.
deserialize_Action(v) ==
    CASE v.t = "obj" ->
            IF ~HasKey(v, "name") THEN Err("missing field name")
            ELSE IF ~deserialize_String(Field(v, "name")).ok THEN Err("invalid type: expected a string")
            ELSE IF ~HasKey(v, "cmd") THEN Err("missing field cmd")
            ELSE IF ~deserialize_String(Field(v, "cmd")).ok THEN Err("invalid type: expected a string")
            ELSE Ok(Action(Field(v, "name").s, Field(v, "cmd").s))
      [] v.t = "arr" ->
            IF Len(v.items) # 2 THEN Err("invalid length")
            ELSE IF v.items[1].t # "str" \/ v.items[2].t # "str"
                 THEN Err("invalid type: expected a string")
            ELSE Ok(Action(v.items[1].s, v.items[2].s))
      [] OTHER -> Err("invalid type: expected struct Action")

RECURSIVE deserialize_Entry(_), deserialize_Group(_), deserialize_Vec_Entry(_)

\* impl Deserialize for Group: GroupVisitor::visit_map takes the first entry
\* as (name, entries) and refuses a second key; only a map is visited.
deserialize_Group(v) ==
    IF v.t # "obj" THEN Err("invalid type: expected a map with a single key")
    ELSE IF v.members = <<>> THEN Err("expected non-empty map for group")
    ELSE LET entries == deserialize_Vec_Entry(v.members[1].v)
         IN  IF ~entries.ok THEN entries
             ELSE IF Len(v.members) > 1 THEN Err("group must have exactly one key (the group name)")
             ELSE Ok(EntryGroup(v.members[1].k, entries.value))

\* A bug the untagged Entry could have: only the Action variant is tried.
deserialize_Entry_actionOnly(v) ==
    LET action == deserialize_Action(v)
    IN  IF action.ok
        THEN Ok(EntryAction(action.value))
        ELSE Err("data did not match any variant of untagged enum Entry")

\* #[serde(untagged)] enum Entry { Action(Action), Group(Group) }: the
\* variants are tried in this order.
deserialize_Entry(v) ==
    LET action == deserialize_Action(v)
    IN  IF action.ok
        THEN Ok(EntryAction(action.value))
        ELSE LET group == deserialize_Group(v)
             IN  IF group.ok
                 THEN group
                 ELSE Err("data did not match any variant of untagged enum Entry")

\* Vec<Entry>: a sequence, each element an Entry.
deserialize_Vec_Entry(v) ==
    IF v.t # "arr" THEN Err("invalid type: expected a sequence")
    ELSE IF \E i \in DOMAIN v.items : ~deserialize_Entry(v.items[i]).ok
         THEN Err("data did not match any variant of untagged enum Entry")
    ELSE Ok([i \in DOMAIN v.items |-> deserialize_Entry(v.items[i]).value])

\* Option<Vec<Entry>>: null is None.
deserialize_Option_Vec_Entry(v) ==
    IF v.t = "null"
    THEN Ok(None)
    ELSE LET entries == deserialize_Vec_Entry(v)
         IN  IF entries.ok THEN Ok(Some(entries.value)) ELSE entries

\* struct ConfigContent { terminal, editor, actions }
ConfigContent(terminal, editor, actions) ==
    [terminal |-> terminal, editor |-> editor, actions |-> actions]

\* serde_json::from_value::<ConfigContent>, #[derive(Deserialize)]: from a
\* map an absent field is None and an unknown key is ignored; from a sequence
\* the three fields are read by position.
from_value(value) ==
    CASE value.t = "obj" ->
            LET terminal == IF HasKey(value, "terminal")
                            THEN deserialize_Option_String(Field(value, "terminal"))
                            ELSE Ok(None)
                editor   == IF HasKey(value, "editor")
                            THEN deserialize_Option_String(Field(value, "editor"))
                            ELSE Ok(None)
                actions  == IF HasKey(value, "actions")
                            THEN deserialize_Option_Vec_Entry(Field(value, "actions"))
                            ELSE Ok(None)
            IN  IF ~terminal.ok THEN terminal
                ELSE IF ~editor.ok THEN editor
                ELSE IF ~actions.ok THEN actions
                ELSE Ok(ConfigContent(terminal.value, editor.value, actions.value))
      [] value.t = "arr" ->
            IF Len(value.items) # 3 THEN Err("invalid length")
            ELSE LET terminal == deserialize_Option_String(value.items[1])
                     editor   == deserialize_Option_String(value.items[2])
                     actions  == deserialize_Option_Vec_Entry(value.items[3])
                 IN  IF ~terminal.ok THEN terminal
                     ELSE IF ~editor.ok THEN editor
                     ELSE IF ~actions.ok THEN actions
                     ELSE Ok(ConfigContent(terminal.value, editor.value, actions.value))
      [] OTHER -> Err("invalid type: expected struct ConfigContent")

\* ------------------------------------------------------------------------
\* crates/settings/src/error.rs, sources/config.rs: load_from_str
\* ------------------------------------------------------------------------

\* SettingsError::ConfigParse(serde_json::Error)
ConfigParse(e) == [kind |-> "ConfigParse", message |-> e]

\* SettingsError::ConfigValidation(errors)
ConfigValidation(errors) == [kind |-> "ConfigValidation", errors |-> errors]

\* What a call of load_from_str returned, and the steps it ran to get there.
Loaded(result, ran) == [result |-> result, ran |-> ran]

\* A bug load_from_str could have: the parsed value is deserialized without
\* being validated.
load_from_str_unvalidated(s) ==
    LET value == from_str(s)
    IN  IF ~value.ok
        THEN Loaded(Err(ConfigParse(value.error)), <<"parse">>)
        ELSE LET content == from_value(value.value)
             IN  Loaded(IF content.ok THEN content ELSE Err(ConfigParse(content.error)),
                        <<"parse", "deserialize">>)

\* load_from_str: parse, return on a syntax error; validate, return on a
\* violation; deserialize.
load_from_str(s) ==
    LET value == from_str(s)
    IN  IF ~value.ok
        THEN Loaded(Err(ConfigParse(value.error)), <<"parse">>)
        ELSE LET validation == validate(value.value)
             IN  IF ~validation.valid
                 THEN Loaded(Err(ConfigValidation(validation.errors)), <<"parse", "validate">>)
                 ELSE LET content == from_value(value.value)
                      IN  Loaded(IF content.ok THEN content
                                 ELSE Err(ConfigParse(content.error)),
                                 <<"parse", "validate", "deserialize">>)

\* ------------------------------------------------------------------------
\* Input documents
\* ------------------------------------------------------------------------

\* Serialize for Action: {"name": ..., "cmd": ...}
action_to_json(a) == JObj(<<Member("name", JStr(a.name)), Member("cmd", JStr(a.cmd))>>)

\* Keys of single-key objects in the input documents; "name" is also a field
\* of Action.
JsonGroupKeys == {"G", "name"}

\* Values met where an entry is expected that hold no further entries: an
\* Action, an Action without cmd, with a key too many, with a name that is
\* no string, an empty object, a string, a pair of strings, a single key
\* bound to no sequence, two Group keys in one object, and empty Groups.
JsonEntryLeaves ==
    {action_to_json(Action("a", "x")),
     JObj(<<Member("name", JStr("a"))>>),
          JObj(<<Member("name", JStr("a")), Member("cmd", JStr("x")), Member("extra", JBool(TRUE))>>),
          JObj(<<Member("name", JNum(1)), Member("cmd", JStr("x"))>>),
          JObj(<<>>),
          JStr("a"),
          JArr(<<JStr("a"), JStr("x")>>),
          JObj(<<Member("G", JStr("x"))>>),
          JObj(<<Member("G", JArr(<<>>)), Member("H", JArr(<<>>))>>)}
    \cup {JObj(<<Member(g, JArr(<<>>))>>) : g \in JsonGroupKeys}

RECURSIVE JsonEntriesOfSize(_), JsonEntryOfSize(_)

JsonEntryOfSize(k) ==
    IF k = 1
    THEN JsonEntryLeaves
    ELSE {JObj(<<Member(g, JArr(f))>>) : g \in JsonGroupKeys, f \in JsonEntriesOfSize(k - 1)}

JsonEntriesOfSize(n) ==
    IF n = 0
    THEN {<<>>}
    ELSE UNION {{<<t>> \o f : t \in JsonEntryOfSize(k), f \in JsonEntriesOfSize(n - k)}
                : k \in 1..n}

\* The members before "actions" in the input documents.
JsonHeaders ==
    {<<>>,
     <<Member("terminal", JStr("kitty"))>>,
     <<Member("terminal", JNum(123))>>,
     <<Member("editor", JStr("nano"))>>,
     <<Member("editor", JArr(<<JStr("vim"), JStr("nano")>>))>>,
     <<Member("terminal", JStr("kitty")), Member("editor", JStr("vim"))>>,
     <<Member("terminal", JStr("alacritty")), Member("unknown", JBool(TRUE))>>,
     <<Member("unknown_field", JStr("value"))>>,
     <<Member("terminal", JNum(123)), Member("unknown", JBool(TRUE))>>}

\* What the input documents hold under "actions": nothing, a string, or a
\* sequence of at most n entry values.
JsonActions(n) ==
    {<<>>, <<Member("actions", JStr("not an array"))>>}
    \cup {<<Member("actions", JArr(f))>> : f \in UNION {JsonEntriesOfSize(k) : k \in 0..n}}

JsonObjects(n) == {JObj(h \o a) : h \in JsonHeaders, a \in JsonActions(n)}

\* The JSON values of the input documents: objects with "actions" alone and
\* at most max entry values, objects with other members and at most
\* one entry value, and values that are no object.
JsonDocs(max) ==
    {JObj(a) : a \in JsonActions(max)}
    \cup JsonObjects(1)
    \cup {JNull, JNum(1), JStr("x"), JArr(<<>>), JArr(<<JNull, JNull, JNull>>)}

\* Texts that are not JSON: words, nothing at all, a document cut before its
\* last token, a document followed by one more token, a key without value.
MalformedTexts ==
    {<<WordTok("not"), WordTok("valid"), WordTok("json")>>,
     <<>>,
     <<Punct("{"), StrTok("terminal"), Punct("}")>>}
    \cup {SubSeq(to_tokens(d), 1, Len(to_tokens(d)) - 1) : d \in JsonObjects(1)}
    \cup {to_tokens(d) \o <<Punct("}")>> : d \in JsonObjects(1)}

\* Texts of JSON documents, one of them with a key written twice.
WellFormedTexts(max) ==
    {to_tokens(d) : d \in JsonDocs(max)}
    \cup {<<Punct("{"), StrTok("terminal"), Punct(":"), StrTok("kitty"), Punct(","),
            StrTok("terminal"), Punct(":"), StrTok("alacritty"), Punct("}")>>}

\* The strings handed to load_from_str.
Texts(max) == WellFormedTexts(max) \cup MalformedTexts

\* ------------------------------------------------------------------------
\* crates/config/src/types.rs, loader.rs: Config and its loading
\* ------------------------------------------------------------------------

\* struct Config { terminal, editor, entries }
Config(terminal, editor, entries) ==
    [terminal |-> terminal, editor |-> editor, entries |-> entries]

default_terminal == "default"

default_editor == "default"

\* impl Default for Config
Config_default == Config(default_terminal, default_editor, <<>>)

\* #[derive(Deserialize)] struct Config with a default on every field: from a
\* map an absent field takes its default and an unknown key is ignored; from
\* a sequence the fields are read by position, a missing one takes its
\* default.
deserialize_Config(value) ==
    CASE value.t = "obj" ->
            LET terminal == IF HasKey(value, "terminal")
                            THEN deserialize_String(Field(value, "terminal"))
                            ELSE Ok(default_terminal)
                editor   == IF HasKey(value, "editor")
                            THEN deserialize_String(Field(value, "editor"))
                            ELSE Ok(default_editor)
                entries  == IF HasKey(value, "actions")
                            THEN deserialize_Vec_Entry(Field(value, "actions"))
                            ELSE Ok(<<>>)
            IN  IF ~terminal.ok THEN terminal
                ELSE IF ~editor.ok THEN editor
                ELSE IF ~entries.ok THEN entries
                ELSE Ok(Config(terminal.value, editor.value, entries.value))
      [] value.t = "arr" ->
            LET n == Len(value.items)
                terminal == IF n >= 1 THEN deserialize_String(value.items[1])
                            ELSE Ok(default_terminal)
                editor   == IF n >= 2 THEN deserialize_String(value.items[2])
                            ELSE Ok(default_editor)
                entries  == IF n >= 3 THEN deserialize_Vec_Entry(value.items[3])
                            ELSE Ok(<<>>)
            IN  IF ~terminal.ok THEN terminal
                ELSE IF ~editor.ok THEN editor
                ELSE IF ~entries.ok THEN entries
                ELSE IF n > 3 THEN Err("invalid length")
                ELSE Ok(Config(terminal.value, editor.value, entries.value))
      [] OTHER -> Err("invalid type: expected struct Config")

\* #[derive(Serialize)] struct Action: a map with name, then cmd.
serialize_Action(action) ==
    JObj(<<Member("name", JStr(action.name)), Member("cmd", JStr(action.cmd))>>)

RECURSIVE serialize_Entry(_)

\* A bug Serialize for Group could have: the derived form, a map with the
\* fields name and entries.
serialize_Group_derived(group) ==
    JObj(<<Member("name", JStr(group.name)),
           Member("entries", JArr([i \in DOMAIN group.entries |->
                                      serialize_Entry(group.entries[i])]))>>)

\* impl Serialize for Group: a map with one entry, the name and the entries.
serialize_Group(group) ==
    JObj(<<Member(group.name, JArr([i \in DOMAIN group.entries |->
                                       serialize_Entry(group.entries[i])]))>>)

\* #[derive(Serialize)] #[serde(untagged)] enum Entry: the variant's own form.
serialize_Entry(entry) ==
    IF entry.kind = "Action" THEN serialize_Action(entry.action) ELSE serialize_Group(entry)

\* #[derive(Serialize)] struct Config: terminal, editor, and the entries
\* under "actions".
serialize_Config(config) ==
    JObj(<<Member("terminal", JStr(config.terminal)),
           Member("editor", JStr(config.editor)),
           Member("actions", JArr([i \in DOMAIN config.entries |->
                                      serialize_Entry(config.entries[i])]))>>)

\* serde_json::to_string(&config)
to_string(config) == to_tokens(serialize_Config(config))

\* serde_json::from_str::<Config>(s)
from_str_Config(s) ==
    Once(from_str(s), LAMBDA value :
        IF ~value.ok THEN value ELSE deserialize_Config(value.value))

\* ConfigError::InvalidJson(serde_json::Error)
InvalidJson(e) == [kind |-> "InvalidJson", message |-> e]

\* ConfigError::ValidationFailed(errors)
ValidationFailed(errors) == [kind |-> "ValidationFailed", errors |-> errors]

\* impl FromStr for Config: parse, validate, deserialize.
Config_from_str(s) ==
    LET value == from_str(s)
    IN  IF ~value.ok THEN Err(InvalidJson(value.error))
        ELSE LET validation == validate(value.value)
             IN  IF ~validation.valid THEN Err(ValidationFailed(validation.errors))
                 ELSE LET config == deserialize_Config(value.value)
                      IN  IF config.ok THEN config ELSE Err(InvalidJson(config.error))

\* The file at config_path(): there is no home directory, or the file does
\* not exist, or it holds a text.
NoHome == [home |-> FALSE]

Absent == [home |-> TRUE, exists |-> FALSE]

Present(text) == [home |-> TRUE, exists |-> TRUE, text |-> text]

\* LoadError::NoHomeDir
NoHomeDir == [kind |-> "NoHomeDir"]

\* LoadError::Io
Io == [kind |-> "Io"]

\* load(): no home directory is an error, a missing file is the default
\* Config, a file is read and parsed.
config_load(file) ==
    IF ~file.home THEN Err(NoHomeDir)
    ELSE IF ~file.exists THEN Ok(Config_default)
    ELSE Config_from_str(file.text)

\* The embedded default document written on first run.
DEFAULT_JSON ==
    to_tokens(JObj(<<Member("terminal", JStr("default")),
                     Member("editor", JStr("default")),
                     Member("actions", JArr(<<>>))>>))

\* A bug ensure_config_exists could have: the default document is written
\* whether a file is there or not.
ensure_config_exists_overwriting(file, writable) ==
    IF ~file.home THEN [result |-> Err(NoHomeDir), file |-> file]
    ELSE IF writable THEN [result |-> Ok("path"), file |-> Present(DEFAULT_JSON)]
    ELSE [result |-> Err(Io), file |-> file]

\* ensure_config_exists(): writes the default document where no file is;
\* the write can fail. Returns the file as it is afterwards.
ensure_config_exists(file, writable) ==
    IF ~file.home THEN [result |-> Err(NoHomeDir), file |-> file]
    ELSE IF file.exists THEN [result |-> Ok("path"), file |-> file]
    ELSE IF writable THEN [result |-> Ok("path"), file |-> Present(DEFAULT_JSON)]
    ELSE [result |-> Err(Io), file |-> file]

\* ------------------------------------------------------------------------
\* crates/ssh/src/lib.rs: parse_ssh_config
\* ------------------------------------------------------------------------

\* One pattern of a Host line: its text, whether the text holds '*' or '?'
\* or is "!", and whether the clause is negated.
Clause(name, wild, negated) == [pattern |-> name, wild |-> wild, negated |-> negated]

\* The SSH config file: a parse failure, or the Host lines, each a sequence
\* of clauses.
SshUnparsable == [parsed |-> FALSE]

SshHosts(hosts) == [parsed |-> TRUE, hosts |-> hosts]

\* Position of a host name in the order of its lowercased text.
LowerRank(name) == CASE name = "h1" -> 1 [] name = "H2" -> 2 [] name = "h2" -> 2 [] OTHER -> 3

RECURSIVE sort_by_key(_)
\* hosts.sort_by_key(|a| a.to_lowercase()): a stable sort.
sort_by_key(hosts) ==
    IF hosts = <<>> THEN <<>>
    ELSE LET least == CHOOSE i \in DOMAIN hosts :
                          \A j \in DOMAIN hosts :
                              \/ LowerRank(hosts[i]) < LowerRank(hosts[j])
                              \/ LowerRank(hosts[i]) = LowerRank(hosts[j]) /\ i <= j
             rest  == [k \in 1..(Len(hosts) - 1) |-> IF k < least THEN hosts[k] ELSE hosts[k + 1]]
         IN  <<hosts[least]>> \o sort_by_key(rest)

RECURSIVE push_hosts(_), push_clauses(_)
\* The inner loop: the clauses of one Host line that are plain names.
push_clauses(clauses) ==
    IF clauses = <<>> THEN <<>>
    ELSE LET clause == Head(clauses)
         IN  (IF clause.wild \/ clause.negated THEN <<>> ELSE <<clause.pattern>>)
             \o push_clauses(Tail(clauses))

\* The outer loop over config.get_hosts().
push_hosts(hosts) ==
    IF hosts = <<>> THEN <<>>
    ELSE push_clauses(Head(hosts)) \o push_hosts(Tail(hosts))

\* parse_ssh_config(): no hosts on a parse failure; otherwise the plain
\* names, sorted.
parse_ssh_config(file) ==
    IF ~file.parsed THEN <<>> ELSE sort_by_key(push_hosts(file.hosts))

\* ------------------------------------------------------------------------
\* crates/settings/src: sources/config.rs load, loaders/ssh.rs, Settings::load
\* ------------------------------------------------------------------------

\* What is on disk at a path: nothing, a file that cannot be read, or a file
\* with its content.
NoFile == [exists |-> FALSE]

Unreadable == [exists |-> TRUE, readable |-> FALSE]

OnDisk(content) == [exists |-> TRUE, readable |-> TRUE, content |-> content]

\* What the loaders run on: whether dirs::home_dir() resolves, what is at
\* ~/.xshuttle.json and what is at ~/.ssh/config.
Env(home, config, ssh) == [home |-> home, config |-> config, ssh |-> ssh]

\* SettingsError::ConfigIo(std::io::Error)
ConfigIo == [kind |-> "ConfigIo"]

\* SettingsError::SshParse(String)
SshParse(message) == [kind |-> "SshParse", message |-> message]

\* load_from_path: the read can fail, then load_from_str.
load_from_path(file) ==
    IF ~file.readable THEN Err(ConfigIo) ELSE load_from_str(file.content).result

\* A bug load could have: a missing file is an error like a failed read.
sources_config_load_requiresFile(env) ==
    IF ~env.home THEN Err(NoHomeDir)
    ELSE IF ~env.config.exists THEN Err(ConfigIo)
    ELSE LET content == load_from_path(env.config)
         IN  IF content.ok THEN Ok(Some(content.value)) ELSE content

\* sources/config.rs load(): no home directory is an error, a missing file
\* is None, a file is loaded.
sources_config_load(env) ==
    IF ~env.home THEN Err(NoHomeDir)
    ELSE IF ~env.config.exists THEN Ok(None)
    ELSE LET content == load_from_path(env.config)
         IN  IF content.ok THEN Ok(Some(content.value)) ELSE content

\* A bug the SSH loader could have: a file that does not parse gives the
\* empty list.
loaders_parse_ssh_config_lenient(env) ==
    IF ~env.home THEN Err(NoHomeDir)
    ELSE IF ~env.ssh.exists THEN Ok(<<>>)
    ELSE IF ~env.ssh.readable \/ ~env.ssh.content.parsed THEN Ok(<<>>)
    ELSE Ok(sort_by_key(push_hosts(env.ssh.content.hosts)))

\* loaders/ssh.rs parse_ssh_config(): no home directory is an error, a
\* missing file is the empty list, a file that cannot be read or does not
\* parse is an error; otherwise the plain names, sorted.
loaders_parse_ssh_config(env) ==
    IF ~env.home THEN Err(NoHomeDir)
    ELSE IF ~env.ssh.exists THEN Ok(<<>>)
    ELSE IF ~env.ssh.readable \/ ~env.ssh.content.parsed THEN Err(SshParse("parse error"))
    ELSE Ok(sort_by_key(push_hosts(env.ssh.content.hosts)))

\* struct Settings { terminal, editor, actions, hosts }
Settings(terminal, editor, actions, hosts) ==
    [terminal |-> terminal, editor |-> editor, actions |-> actions, hosts |-> hosts]

DEFAULT_TERMINAL == "default"

DEFAULT_EDITOR == "default"

\* impl Default for Settings
Settings_default ==
    Settings(DEFAULT_TERMINAL, DEFAULT_EDITOR, from_entries(<<>>), from_hostnames(<<>>))

\* ConfigContent::default(), #[derive(Default)]
ConfigContent_default == ConfigContent(None, None, None)

\* Option::unwrap_or
unwrap_or(option, default) == IF option.some THEN option.value ELSE default

\* A bug Settings::load could have: the defaults are applied together, an
\* absent terminal making the editor the default one as well.
Settings_load_coupledDefaults(env) ==
    Once(sources_config_load(env), LAMBDA loaded_config :
        IF ~loaded_config.ok THEN loaded_config
        ELSE Once(unwrap_or(loaded_config.value, ConfigContent_default), LAMBDA config :
             Once(loaders_parse_ssh_config(env), LAMBDA raw_hosts :
                 IF ~raw_hosts.ok THEN raw_hosts
                 ELSE Ok(Settings(unwrap_or(config.terminal, DEFAULT_TERMINAL),
                                  IF config.terminal.some
                                  THEN unwrap_or(config.editor, DEFAULT_EDITOR)
                                  ELSE DEFAULT_EDITOR,
                                  from_entries(unwrap_or(config.actions, <<>>)),
                                  from_hostnames(raw_hosts.value))))))

\* A bug Settings::load could have: a failure of the host source gives the
\* settings built so far, without hosts.
Settings_load_partial(env) ==
    Once(sources_config_load(env), LAMBDA loaded_config :
        IF ~loaded_config.ok THEN loaded_config
        ELSE Once(unwrap_or(loaded_config.value, ConfigContent_default), LAMBDA config :
             Once(loaders_parse_ssh_config(env), LAMBDA raw_hosts :
                 IF ~raw_hosts.ok
                 THEN Ok([terminal |-> unwrap_or(config.terminal, DEFAULT_TERMINAL),
                          editor   |-> unwrap_or(config.editor, DEFAULT_EDITOR),
                          actions  |-> from_entries(unwrap_or(config.actions, <<>>))])
                 ELSE Ok(Settings(unwrap_or(config.terminal, DEFAULT_TERMINAL),
                                  unwrap_or(config.editor, DEFAULT_EDITOR),
                                  from_entries(unwrap_or(config.actions, <<>>)),
                                  from_hostnames(raw_hosts.value))))))

\* What Settings::load did: what it returned and the loaders it called, in
\* the order of the calls.
Traced(result, reads) == [result |-> result, reads |-> reads]

\* A bug Settings::load could have: the hosts are read before the config,
\* and their failure is returned first.
Settings_load_sshFirst(env) ==
    Once(loaders_parse_ssh_config(env), LAMBDA raw_hosts :
        IF ~raw_hosts.ok THEN Traced(raw_hosts, <<"ssh::parse_ssh_config">>)
        ELSE Once(sources_config_load(env), LAMBDA loaded_config :
             IF ~loaded_config.ok
             THEN Traced(loaded_config, <<"ssh::parse_ssh_config", "config::load">>)
             ELSE Once(unwrap_or(loaded_config.value, ConfigContent_default), LAMBDA config :
                 Traced(Ok(Settings(unwrap_or(config.terminal, DEFAULT_TERMINAL),
                                    unwrap_or(config.editor, DEFAULT_EDITOR),
                                    from_entries(unwrap_or(config.actions, <<>>)),
                                    from_hostnames(raw_hosts.value))),
                        <<"ssh::parse_ssh_config", "config::load">>))))

\* Settings::load: the config content or its default, then the hosts; the
\* first failure is returned from where it happens (the ? operator),
\* otherwise the four fields are built.
Settings_load_traced(env) ==
    Once(sources_config_load(env), LAMBDA loaded_config :
        IF ~loaded_config.ok THEN Traced(loaded_config, <<"config::load">>)
        ELSE Once(unwrap_or(loaded_config.value, ConfigContent_default), LAMBDA config :
             Once(loaders_parse_ssh_config(env), LAMBDA raw_hosts :
                 IF ~raw_hosts.ok
                 THEN Traced(raw_hosts, <<"config::load", "ssh::parse_ssh_config">>)
                 ELSE Traced(Ok(Settings(unwrap_or(config.terminal, DEFAULT_TERMINAL),
                                         unwrap_or(config.editor, DEFAULT_EDITOR),
                                         from_entries(unwrap_or(config.actions, <<>>)),
                                         from_hostnames(raw_hosts.value))),
                             <<"config::load", "ssh::parse_ssh_config">>))))

\* Settings::load, what it returns
Settings_load(env) == Settings_load_traced(env).result

\* ------------------------------------------------------------------------
\* crates/config/src/lib.rs: Config::load_from_str, load_from_path, load;
\* crates/ssh/src/lib.rs on an environment
\* ------------------------------------------------------------------------

\* Config::load_from_str: s.parse::<Self>().unwrap_or_else(|e| default).
Config_load_from_str(s) ==
    Once(Config_from_str(s), LAMBDA parsed :
        IF parsed.ok THEN parsed.value ELSE Config_default)

\* Config::load_from_path: a missing file and a failed read are the default.
Config_load_from_path(file) ==
    IF ~file.exists THEN Config_default
    ELSE IF ~file.readable THEN Config_default
    ELSE Config_load_from_str(file.content)

\* Config::load: no config path is the default.
Config_load(env) ==
    IF env.home THEN Config_load_from_path(env.config) ELSE Config_default

\* crates/config/src/loader.rs load() on an environment: the read of
\* load_from_path can fail.
loader_load(env) ==
    IF ~env.home THEN Err(NoHomeDir)
    ELSE IF ~env.config.exists THEN Ok(Config_default)
    ELSE IF ~env.config.readable THEN Err(Io)
    ELSE Config_from_str(env.config.content)

\* SshConfig::parse_default_file: what it reads, a parse failure where the
\* file is missing or cannot be read.
parse_default_file(env) ==
    IF env.home /\ env.ssh.exists /\ env.ssh.readable THEN env.ssh.content ELSE SshUnparsable

\* ------------------------------------------------------------------------
\* src/app.rs: build_menu; crates/tray/src/lib.rs: Tray
\* ------------------------------------------------------------------------

\* Menu ids are strings; a formatted id is kept as its pieces.
MENU_ID_CONFIGURE == <<"configure">>

MENU_ID_RELOAD == <<"reload">>

MENU_ID_QUIT == <<"quit">>

\* format!("action_{}", id_counter)
ActionMenuId(counter) == <<"action_", counter>>

\* format!("ssh_{}", index)
SshMenuId(i) == <<"ssh_", i>>

\* MenuItem::with_id(id, text, true, None)
MenuItem(id, text) == [kind |-> "item", id |-> id, text |-> text]

\* Submenu::new(name, true) with the items appended to it
Submenu(name, items) == [kind |-> "submenu", text |-> name, items |-> items]

\* PredefinedMenuItem::separator()
Separator == [kind |-> "separator"]

\* HashMap::insert: a key already there gets the new value.
HashMap_insert(map, key, value) == (key :> value) @@ map

\* What the entry loops carry: the items appended so far, the id map and the
\* id counter.
Building(items, menu_id_map, id_counter) ==
    [items |-> items, menu_id_map |-> menu_id_map, id_counter |-> id_counter]

RECURSIVE build_submenu_entries(_, _, _)
\* build_submenu_entries(submenu, entries, menu_id_map, id_counter)
build_submenu_entries(entries, menu_id_map, id_counter) ==
    IF entries = <<>> THEN Building(<<>>, menu_id_map, id_counter)
    ELSE LET entry == Head(entries)
             first == IF entry.kind = "Action"
                      THEN Building(<<MenuItem(ActionMenuId(id_counter), entry.action.name)>>,
                                    HashMap_insert(menu_id_map, ActionMenuId(id_counter),
                                                   <<entry.action.cmd>>),
                                    id_counter + 1)
                      ELSE LET nested == build_submenu_entries(entry.entries, menu_id_map,
                                                               id_counter)
                           IN  Building(<<Submenu(entry.name, nested.items)>>,
                                        nested.menu_id_map, nested.id_counter)
             rest  == build_submenu_entries(Tail(entries), first.menu_id_map, first.id_counter)
         IN  Building(first.items \o rest.items, rest.menu_id_map, rest.id_counter)

RECURSIVE build_entries(_, _, _)
\* build_entries(menu, entries, menu_id_map, id_counter)
build_entries(entries, menu_id_map, id_counter) ==
    IF entries = <<>> THEN Building(<<>>, menu_id_map, id_counter)
    ELSE LET entry == Head(entries)
             first == IF entry.kind = "Action"
                      THEN Building(<<MenuItem(ActionMenuId(id_counter), entry.action.name)>>,
                                    HashMap_insert(menu_id_map, ActionMenuId(id_counter),
                                                   <<entry.action.cmd>>),
                                    id_counter + 1)
                      ELSE LET nested == build_submenu_entries(entry.entries, menu_id_map,
                                                               id_counter)
                           IN  Building(<<Submenu(entry.name, nested.items)>>,
                                        nested.menu_id_map, nested.id_counter)
             rest  == build_entries(Tail(entries), first.menu_id_map, first.id_counter)
         IN  Building(first.items \o rest.items, rest.menu_id_map, rest.id_counter)

\* build_menu(actions, hosts): the menu and the map from menu id to command.
build_menu(actions, hosts) ==
    LET built == build_entries(actions, <<>>, 0)
        host_items == [i \in DOMAIN hosts |-> MenuItem(SshMenuId(i - 1), hosts[i])]
        host_map == [id \in {SshMenuId(i - 1) : i \in DOMAIN hosts} |-> <<"ssh ", hosts[id[2] + 1]>>]
    IN  [menu |-> built.items
                  \o (IF actions # <<>> /\ hosts # <<>> THEN <<Separator>> ELSE <<>>)
                  \o host_items
                  \o (IF hosts # <<>> THEN <<Separator>> ELSE <<>>)
                  \o <<MenuItem(MENU_ID_CONFIGURE, "Configure"),
                       MenuItem(MENU_ID_RELOAD, "Reload"),
                       MenuItem(MENU_ID_QUIT, "Quit")>>,
         menu_id_map |-> host_map @@ built.menu_id_map]

\* Tray::new()
Tray_new == [icon |-> None]

\* Tray::init(menu)
Tray_init(self, menu) == [self EXCEPT !.icon = Some([menu |-> menu])]

\* Tray::set_menu(menu): nothing without an icon.
Tray_set_menu(self, menu) ==
    IF self.icon.some THEN [self EXCEPT !.icon = Some([menu |-> menu])] ELSE self

\* Tray::destroy()
Tray_destroy(self) == [self EXCEPT !.icon = None]

\* ------------------------------------------------------------------------
\* crates/tray/src/lib.rs: build_menu from Settings
\* ------------------------------------------------------------------------

\* The ids of dynamic items are strings built by format!; they are kept as
\* their sequences of characters.
MENU_ID_ACTION_PREFIX == <<"a", "c", "t", "i", "o", "n", "_">>

MENU_ID_HOST_PREFIX == <<"h", "o", "s", "t", "_">>

\* The decimal digits, in order.
Digits == <<"0", "1", "2", "3", "4", "5", "6", "7", "8", "9">>

RECURSIVE Display(_)
\* Display for usize: the decimal digits, most significant first.
Display(n) ==
    IF n < 10 THEN <<Digits[n + 1]>> ELSE Display(n \div 10) \o <<Digits[(n % 10) + 1]>>

\* format!("{}{}", prefix, id.index())
format(prefix, n) == prefix \o Display(n)

RECURSIVE build_action_submenu(_, _)
\* build_action_submenu(submenu, tree, actions): the items appended to submenu.
build_action_submenu(tree, actions) ==
    IF tree = <<>> THEN <<>>
    ELSE LET node == Head(tree)
         IN  (IF node.kind = "Leaf"
              THEN IF get(actions, node.id).some
                   THEN <<MenuItem(format(MENU_ID_ACTION_PREFIX, index(node.id)),
                                   get(actions, node.id).value.name)>>
                   ELSE <<>>
              ELSE <<Submenu(node.name, build_action_submenu(node.children, actions))>>)
             \o build_action_submenu(Tail(tree), actions)

RECURSIVE build_action_nodes(_, _)
\* build_action_nodes(menu, tree, actions): the items appended to menu.
build_action_nodes(tree, actions) ==
    IF tree = <<>> THEN <<>>
    ELSE LET node == Head(tree)
         IN  (IF node.kind = "Leaf"
              THEN IF get(actions, node.id).some
                   THEN <<MenuItem(format(MENU_ID_ACTION_PREFIX, index(node.id)),
                                   get(actions, node.id).value.name)>>
                   ELSE <<>>
              ELSE <<Submenu(node.name, build_action_submenu(node.children, actions))>>)
             \o build_action_nodes(Tail(tree), actions)

RECURSIVE build_host_items(_, _, _)
\* The loop over settings.hosts.nodes(): an item for each Leaf whose id the
\* container resolves.
build_host_items(tree, hosts, prefix) ==
    IF tree = <<>> THEN <<>>
    ELSE LET node == Head(tree)
         IN  (IF node.kind = "Leaf" /\ get(hosts, node.id).some
              THEN <<MenuItem(format(prefix, index(node.id)),
                              get(hosts, node.id).value.hostname)>>
              ELSE <<>>)
             \o build_host_items(Tail(tree), hosts, prefix)

\* A bug build_menu could have: the host items get the action prefix.
tray_build_menu_onePrefix(settings) ==
    build_action_nodes(nodes(settings.actions), settings.actions)
    \o (IF ~is_empty(settings.actions) /\ ~is_empty(settings.hosts) THEN <<Separator>> ELSE <<>>)
    \o build_host_items(nodes(settings.hosts), settings.hosts, MENU_ID_ACTION_PREFIX)
    \o (IF ~is_empty(settings.hosts) \/ ~is_empty(settings.actions) THEN <<Separator>> ELSE <<>>)
    \o <<MenuItem(MENU_ID_CONFIGURE, "Configure"),
         MenuItem(MENU_ID_RELOAD, "Reload"),
         MenuItem(MENU_ID_QUIT, "Quit")>>

\* build_menu(settings): the action entries, a separator if both sections
\* have items, the host entries, a separator if either has, the static items.
tray_build_menu(settings) ==
    build_action_nodes(nodes(settings.actions), settings.actions)
    \o (IF ~is_empty(settings.actions) /\ ~is_empty(settings.hosts) THEN <<Separator>> ELSE <<>>)
    \o build_host_items(nodes(settings.hosts), settings.hosts, MENU_ID_HOST_PREFIX)
    \o (IF ~is_empty(settings.hosts) \/ ~is_empty(settings.actions) THEN <<Separator>> ELSE <<>>)
    \o <<MenuItem(MENU_ID_CONFIGURE, "Configure"),
         MenuItem(MENU_ID_RELOAD, "Reload"),
         MenuItem(MENU_ID_QUIT, "Quit")>>

\* ------------------------------------------------------------------------
\* src/xshuttle.rs: Application
\* ------------------------------------------------------------------------

\* The files the application reads: the config file and the SSH config.
Files(config, ssh) == [config |-> config, ssh |-> ssh]

\* Application::default()
Application_default == [config |-> None, tray |-> Tray_new, menu_id_map |-> <<>>]

\* terminal.launch(command); an error is printed and dropped.
Launch(terminal, command) == [effect |-> "launch", terminal |-> terminal, command |-> command]

\* open::that(path) and open::with(path, editor)
Open(app) == [effect |-> "open", app |-> app]

\* A bug build could have: the id table is replaced and the config of the
\* previous load is kept.
build_keepsConfig(self, files) ==
    Once(config_load(files.config), LAMBDA loaded :
    Once(IF loaded.ok THEN loaded.value ELSE Config_default, LAMBDA config :
    Once(parse_ssh_config(files.ssh), LAMBDA hosts :
    Once(build_menu(config.entries, hosts), LAMBDA built :
        LET self1 == [self EXCEPT !.menu_id_map = built.menu_id_map]
            self2 == IF self1.config.some THEN self1
                     ELSE [self1 EXCEPT !.config = Some(config)]
        IN  [self |-> self2, menu |-> built.menu]))))

\* Application::build: load the config (the default on an error), read the
\* hosts, build the menu, store the id map and then the config.
build(self, files) ==
    Once(config_load(files.config), LAMBDA loaded :
    Once(IF loaded.ok THEN loaded.value ELSE Config_default, LAMBDA config :
    Once(parse_ssh_config(files.ssh), LAMBDA hosts :
    Once(build_menu(config.entries, hosts), LAMBDA built :
        LET self1 == [self EXCEPT !.menu_id_map = built.menu_id_map]
            self2 == [self1 EXCEPT !.config = Some(config)]
        IN  [self |-> self2, menu |-> built.menu]))))

\* Application::init: make sure the config file is there (a failure is a
\* warning), build, create the tray icon.
init(self, files, writable) ==
    Once(ensure_config_exists(files.config, writable), LAMBDA ensured :
    Once([files EXCEPT !.config = ensured.file], LAMBDA files1 :
    Once(build(self, files1), LAMBDA built :
        [self |-> [built.self EXCEPT !.tray = Tray_init(@, built.menu)], files |-> files1])))

\* Application::reload
reload(self, files) ==
    Once(build(self, files), LAMBDA built :
        [built.self EXCEPT !.tray = Tray_set_menu(@, built.menu)])

is_terminal_editor(editor) ==
    editor \in {"nano", "vim", "vi", "nvim", "emacs", "micro", "ne", "joe", "pico", "ed"}

\* The terminal a launch goes through: the loaded config's, the default one
\* without a config.
TerminalOf(self) == IF self.config.some THEN self.config.value.terminal ELSE "default"

\* Application::configure: what it opens or launches.
configure(self, files) ==
    IF ~files.config.home THEN <<>>
    ELSE LET editor == IF self.config.some THEN self.config.value.editor ELSE "default"
         IN  IF editor = "default" THEN <<Open("default")>>
             ELSE IF is_terminal_editor(editor)
                  THEN <<Launch(TerminalOf(self), <<editor, " ", "path">>)>>
             ELSE <<Open(editor)>>

\* What handle_menu_event did: the application afterwards, the value it
\* returned, and what it launched or opened.
Handled(self, exit, effects) == [self |-> self, exit |-> exit, effects |-> effects]

\* A bug handle_menu_event could have: an id that is not in the table
\* launches the empty command instead of nothing.
handle_menu_event_launchingUnknown(self, files, menu_id) ==
    IF menu_id = MENU_ID_QUIT
    THEN Handled([self EXCEPT !.tray = Tray_destroy(@)], TRUE, <<>>)
    ELSE IF menu_id = MENU_ID_CONFIGURE
    THEN Handled(self, FALSE, configure(self, files))
    ELSE IF menu_id = MENU_ID_RELOAD
    THEN Handled(reload(self, files), FALSE, <<>>)
    ELSE IF menu_id \in DOMAIN self.menu_id_map
    THEN Handled(self, FALSE, <<Launch(TerminalOf(self), self.menu_id_map[menu_id])>>)
    ELSE Handled(self, FALSE, <<Launch(TerminalOf(self), <<>>)>>)

\* Application::handle_menu_event
handle_menu_event(self, files, menu_id) ==
    IF menu_id = MENU_ID_QUIT
    THEN Handled([self EXCEPT !.tray = Tray_destroy(@)], TRUE, <<>>)
    ELSE IF menu_id = MENU_ID_CONFIGURE
    THEN Handled(self, FALSE, configure(self, files))
    ELSE IF menu_id = MENU_ID_RELOAD
    THEN Handled(reload(self, files), FALSE, <<>>)
    ELSE IF menu_id \in DOMAIN self.menu_id_map
    THEN Handled(self, FALSE, <<Launch(TerminalOf(self), self.menu_id_map[menu_id])>>)
    ELSE Handled(self, FALSE, <<>>)

\* ------------------------------------------------------------------------
\* crates/terminal/src/linux.rs: Terminal (Linux)
\* ------------------------------------------------------------------------

\* Terminal::bin: the binary of each variant, none for Default. Names are
\* sequences of characters, as contains() below looks inside them.
linux_bin(self) ==
    CASE self = "Default" -> None
      [] self = "Gnome" -> Some(<<"g", "n", "o", "m", "e", "-", "t", "e", "r", "m", "i", "n", "a", "l">>)
      [] self = "Konsole" -> Some(<<"k", "o", "n", "s", "o", "l", "e">>)
      [] self = "Xfce4" -> Some(<<"x", "f", "c", "e", "4", "-", "t", "e", "r", "m", "i", "n", "a", "l">>)
      [] self = "Alacritty" -> Some(<<"a", "l", "a", "c", "r", "i", "t", "t", "y">>)
      [] self = "Kitty" -> Some(<<"k", "i", "t", "t", "y">>)
      [] self = "Ghostty" -> Some(<<"g", "h", "o", "s", "t", "t", "y">>)
      [] self = "Wezterm" -> Some(<<"w", "e", "z", "t", "e", "r", "m">>)
      [] self = "Tilix" -> Some(<<"t", "i", "l", "i", "x">>)
      [] self = "Terminator" -> Some(<<"t", "e", "r", "m", "i", "n", "a", "t", "o", "r">>)
      [] self = "XTerminalEmulator" -> Some(<<"x", "-", "t", "e", "r", "m", "i", "n", "a", "l", "-", "e", "m", "u", "l", "a", "t", "o", "r">>)
      [] self = "Xterm" -> Some(<<"x", "t", "e", "r", "m">>)

\* Terminal::all(), in its order
linux_all ==
    <<"Gnome", "Konsole", "Xfce4", "Alacritty", "Kitty", "Ghostty", "Wezterm", "Tilix", "Terminator", "XTerminalEmulator", "Xterm">>

\* str::contains: the pattern is a contiguous part of the text.
contains(text, pattern) ==
    \E i \in 1..(Len(text) - Len(pattern) + 1) :
        SubSeq(text, i, i + Len(pattern) - 1) = pattern

\* Iterator::find: the first element of the sequence the test accepts.
find(seq, Test(_)) ==
    IF \E i \in DOMAIN seq : Test(seq[i])
    THEN Some(seq[CHOOSE i \in DOMAIN seq :
                    Test(seq[i]) /\ \A j \in 1..(i - 1) : ~Test(seq[j])])
    ELSE None

\* Terminal::is_available: the variant has a binary and which finds it.
\* path is the set of binaries which finds.
linux_is_available(self, path) ==
    linux_bin(self).some /\ linux_bin(self).value \in path

\* A bug detect could have: with nothing found the requested terminal is
\* returned as it is.
linux_detect_orSelf(self, term_env, path) ==
    IF self # "Default" /\ linux_is_available(self, path) THEN Some(self)
    ELSE Once(IF term_env.some
              THEN find(linux_all, LAMBDA t : /\ linux_bin(t).some
                                              /\ contains(term_env.value, linux_bin(t).value)
                                              /\ linux_is_available(t, path))
              ELSE None,
              LAMBDA from_env :
                  IF from_env.some THEN from_env
                  ELSE Once(find(linux_all, LAMBDA t : linux_is_available(t, path)),
                            LAMBDA first : IF first.some THEN first ELSE Some(self)))

\* Terminal::detect: the requested terminal if it is not Default and is
\* available; else the first of all() whose binary $TERMINAL contains and
\* which is available; else the first available of all().
linux_detect(self, term_env, path) ==
    IF self # "Default" /\ linux_is_available(self, path) THEN Some(self)
    ELSE Once(IF term_env.some
              THEN find(linux_all, LAMBDA t : /\ linux_bin(t).some
                                              /\ contains(term_env.value, linux_bin(t).value)
                                              /\ linux_is_available(t, path))
              ELSE None,
              LAMBDA from_env :
                  IF from_env.some THEN from_env
                  ELSE find(linux_all, LAMBDA t : linux_is_available(t, path)))

\* What launch came to: a panic, or its result and the program it spawned.
Panicked(message) == [panicked |-> TRUE, message |-> message]

Returned(result, spawned) == [panicked |-> FALSE, result |-> result, spawned |-> spawned]

\* Terminal::launch: no terminal is an error; the binary of the detected one
\* is spawned (expect panics on a variant without binary); a failed spawn
\* is an error.
linux_launch(self, term_env, path, spawn_ok) ==
    Once(linux_detect(self, term_env, path), LAMBDA terminal :
        IF ~terminal.some THEN Returned(Err("No terminal found"), <<>>)
        ELSE IF ~linux_bin(terminal.value).some
             THEN Panicked("detect() never returns Default")
        ELSE IF ~spawn_ok THEN Returned(Err("Failed to launch"), <<>>)
        ELSE Returned(Ok("unit"), <<linux_bin(terminal.value).value>>))

\* ------------------------------------------------------------------------
\* src/terminal/macos.rs: Terminal (macOS)
\* ------------------------------------------------------------------------

\* Terminal::app: the application of each variant, none for Auto.
macos_app(self) ==
    CASE self = "Auto" -> None
      [] self = "ITerm" -> Some(<<"i", "T", "e", "r", "m">>)
      [] self = "Terminal" -> Some(<<"T", "e", "r", "m", "i", "n", "a", "l">>)
      [] self = "Warp" -> Some(<<"W", "a", "r", "p">>)
      [] self = "Kitty" -> Some(<<"k", "i", "t", "t", "y">>)
      [] self = "Ghostty" -> Some(<<"G", "h", "o", "s", "t", "t", "y">>)
      [] self = "Wezterm" -> Some(<<"W", "e", "z", "T", "e", "r", "m">>)

\* Terminal::all(), in its order
macos_all ==
    <<"ITerm", "Terminal", "Warp", "Kitty", "Ghostty", "Wezterm">>

\* Terminal::is_available: the variant has an application and mdfind lists
\* it. apps is the set of applications mdfind lists.
macos_is_available(self, apps) ==
    macos_app(self).some /\ macos_app(self).value \in apps

\* Terminal::detect: the requested terminal if it is not Auto and is
\* available; else the first available of all().
macos_detect(self, apps) ==
    IF self # "Auto" /\ macos_is_available(self, apps) THEN Some(self)
    ELSE find(macos_all, LAMBDA t : macos_is_available(t, apps))

\* Terminal::launch: no terminal is an error; the script is written (that
\* can fail), then the application of the detected terminal is opened on it.
macos_launch(self, apps, script_ok, spawn_ok) ==
    Once(macos_detect(self, apps), LAMBDA terminal :
        IF ~terminal.some THEN Returned(Err("No terminal found"), <<>>)
        ELSE IF ~macos_app(terminal.value).some
             THEN Panicked("detect() never returns Auto")
        ELSE IF ~script_ok THEN Returned(Err("Failed to create script"), <<>>)
        ELSE IF ~spawn_ok THEN Returned(Err("Failed to launch"), <<>>)
        ELSE Returned(Ok("unit"), <<macos_app(terminal.value).value>>))

\* ------------------------------------------------------------------------
\* The files the application is run on
\* ------------------------------------------------------------------------

\* A config with a terminal, a terminal editor, an action and a group.
ConfigDocA ==
    JObj(<<Member("terminal", JStr("kitty")),
           Member("editor", JStr("vim")),
           Member("actions",
                  JArr(<<action_to_json(Action("a", "x")),
                         JObj(<<Member("G", JArr(<<action_to_json(Action("b", "x"))>>))>>)>>))>>)

\* A config with one action and nothing else.
ConfigDocB == JObj(<<Member("actions", JArr(<<action_to_json(Action("a", "y"))>>))>>)

\* A config file that is not JSON.
ConfigTextInvalid == <<WordTok("not"), WordTok("valid"), WordTok("json")>>

\* The states of the config file: no home directory, no file, a file with
\* one of the documents above, or a file that is not JSON.
ConfigFiles ==
    {NoHome, Absent, Present(ConfigTextInvalid)}
    \cup {Present(to_tokens(d)) : d \in {ConfigDocA, ConfigDocB}}

\* The states of the SSH config: unparsable, or two Host lines out of order
\* with a wildcard and a negated clause among them.
SshFiles ==
    {SshUnparsable,
     SshHosts(<<<<Clause("H2", FALSE, FALSE), Clause("*", TRUE, FALSE)>>,
                <<Clause("h1", FALSE, FALSE), Clause("h3", FALSE, TRUE)>>>>)}

\* ------------------------------------------------------------------------
\* State
\* ------------------------------------------------------------------------

VARIABLES
    arg,        \* the argument of the container's constructor or of the loader
    container,  \* the Nodes<T> instance, once constructed
    ret,        \* the last call on the container or the loader and what it returned
    target_os,  \* the platform the application is built for
    files,      \* the config file and the SSH config
    app,        \* the Application
    receiver,   \* the menu events sent and not yet handled
    effects,    \* what the step just taken launched or opened
    loaded,     \* what the last build read
    pc          \* "start", "running", "quitting" (Linux: quit sent to winit), "exited"

libVars == <<arg, container, ret>>

appVars == <<target_os, files, app, receiver, effects, loaded, pc>>

vars == <<arg, container, ret, target_os, files, app, receiver, effects, loaded, pc>>

\* No Nodes<T> yet.
Unbuilt == [built |-> FALSE]

Built(n) == [built |-> TRUE, tree |-> n.tree, leaves |-> n.leaves]

NoCall == [op |-> "none"]

\* Ids handed to get: every valid one and some beyond the table.
ProbeIds == 0..(MaxNodes + 1)

\* A MenuEvent waiting to be handled. stale is bookkeeping: whether the menu
\* the id was clicked in has been replaced since.
MenuEvent(id, stale) == [id |-> id, stale |-> stale]

\* What one load reads: the config it ends up with and the hosts. by is
\* "init" or "reload".
LoadOf(fs, by) ==
    Once(config_load(fs.config), LAMBDA read :
        [config |-> IF read.ok THEN read.value ELSE Config_default,
         hosts  |-> parse_ssh_config(fs.ssh),
         by     |-> by])

NoLoad == [by |-> "none"]

\* One thing a handler launched or opened, with the event it answered and the
\* load that was current when it did.
Dispatched(event, load, effect) ==
    [id |-> event.id, stale |-> event.stale, load |-> load, effect |-> effect]

\* The handler's view while it runs: the application, the events still
\* queued, what was dispatched so far, the current load, and whether
\* handle_menu_event asked to exit.
World(self, queue, done, load, exit) ==
    [self |-> self, receiver |-> queue, effects |-> done, loaded |-> load, exit |-> exit]

\* One call of handle_menu_event on the event taken from the queue.
Dispatch(w, fs, event) ==
    Once(handle_menu_event(w.self, fs, event.id), LAMBDA handled :
        LET rebuilt == event.id = MENU_ID_RELOAD
        IN  World(handled.self,
                  IF rebuilt
                  THEN [i \in DOMAIN w.receiver |-> MenuEvent(w.receiver[i].id, TRUE)]
                  ELSE w.receiver,
                  w.effects \o [i \in DOMAIN handled.effects |->
                                   Dispatched(event, w.loaded, handled.effects[i])],
                  IF rebuilt THEN LoadOf(fs, "reload") ELSE w.loaded,
                  handled.exit))

RECURSIVE Drain_pastQuit(_, _)
\* A bug the poll callback could have: no break, the queue is drained to
\* its end whatever handle_menu_event returned.
Drain_pastQuit(w, fs) ==
    IF w.receiver = <<>> THEN w
    ELSE Once(Dispatch([w EXCEPT !.receiver = Tail(@)], fs, Head(w.receiver)),
              LAMBDA next : Drain_pastQuit([next EXCEPT !.exit = w.exit \/ @], fs))

RECURSIVE Drain(_, _)
\* while let Ok(event) = receiver.try_recv() { if handle_menu_event(event) { break } }
Drain(w, fs) ==
    IF w.receiver = <<>> \/ w.exit THEN w
    ELSE Once(Dispatch([w EXCEPT !.receiver = Tail(@)], fs, Head(w.receiver)),
              LAMBDA next : Drain(next, fs))

RECURSIVE MenuIds(_)
\* The ids of the items of a menu, submenus included.
MenuIds(items) ==
    IF items = <<>> THEN {}
    ELSE LET item == Head(items)
         IN  (CASE item.kind = "item" -> {item.id}
                [] item.kind = "submenu" -> MenuIds(item.items)
                [] OTHER -> {})
             \cup MenuIds(Tail(items))

\* The id is none of quit, configure, reload and no key of the table.
UnknownId(self, menu_id) ==
    /\ menu_id \notin {MENU_ID_QUIT, MENU_ID_CONFIGURE, MENU_ID_RELOAD}
    /\ menu_id \notin DOMAIN self.menu_id_map

RECURSIVE DrainUnknown(_, _)
\* Whether the drain hands handle_menu_event an id that is unknown at the
\* time of its call.
DrainUnknown(w, fs) ==
    IF w.receiver = <<>> \/ w.exit THEN FALSE
    ELSE \/ UnknownId(w.self, Head(w.receiver).id)
         \/ Once(Dispatch([w EXCEPT !.receiver = Tail(@)], fs, Head(w.receiver)),
                 LAMBDA next : DrainUnknown(next, fs))

\* What the calls of handle_menu_event of one step came to: whether one of
\* them returned true, and whether one of them had an unknown id.
HandlerCall(exit, unknown) == [op |-> "handle_menu_event", exit |-> exit, unknown |-> unknown]

AppIdle ==
    /\ target_os = "linux"
    /\ files = Files(Absent, SshUnparsable)
    /\ app = Application_default
    /\ receiver = <<>>
    /\ effects = <<>>
    /\ loaded = NoLoad
    /\ pc = "start"

\* ------------------------------------------------------------------------
\* The container: construction, then reads
\* ------------------------------------------------------------------------

InitNodes ==
    /\ \/ \E es \in EntryTrees(MaxNodes) : arg = [kind |-> "entries", entries |-> es]
       \/ \E hs \in HostLists : arg = [kind |-> "hostnames", hostnames |-> hs]
    /\ container = Unbuilt
    /\ ret = NoCall
    /\ AppIdle

\* Nodes::from_entries(entries)
CallFromEntries ==
    /\ ~container.built
    /\ arg.kind = "entries"
    /\ container' = Built(from_entries(arg.entries))
    /\ UNCHANGED <<arg, ret, appVars>>

\* Nodes::from_hostnames(hostnames)
CallFromHostnames ==
    /\ ~container.built
    /\ arg.kind = "hostnames"
    /\ container' = Built(from_hostnames(arg.hostnames))
    /\ UNCHANGED <<arg, ret, appVars>>

\* container.get(NodeId::from_index(i))
CallGet ==
    /\ container.built
    /\ \E i \in ProbeIds :
          ret' = [op |-> "get", id |-> from_index(i), result |-> get(container, from_index(i))]
    /\ UNCHANGED <<arg, container, appVars>>

\* A bug iter could have: it takes the values out of the table, as a
\* draining iterator does.
CallIter_draining ==
    /\ container.built
    /\ ret' = [op |-> "iter", items |-> iter(container)]
    /\ container' = [container EXCEPT !.leaves = <<>>]
    /\ UNCHANGED <<arg, appVars>>

\* container.iter().collect()
CallIter ==
    /\ container.built
    /\ ret' = [op |-> "iter", items |-> iter(container)]
    /\ UNCHANGED <<arg, container, appVars>>

\* container.len()
CallLen ==
    /\ container.built
    /\ ret' = [op |-> "len", result |-> len(container)]
    /\ UNCHANGED <<arg, container, appVars>>

\* container.is_empty()
CallIsEmpty ==
    /\ container.built
    /\ ret' = [op |-> "is_empty", result |-> is_empty(container)]
    /\ UNCHANGED <<arg, container, appVars>>

\* container.nodes()
CallNodes ==
    /\ container.built
    /\ ret' = [op |-> "nodes", result |-> nodes(container)]
    /\ UNCHANGED <<arg, container, appVars>>

NextNodes ==
    \/ CallFromEntries
    \/ CallFromHostnames
    \/ CallGet
    \/ CallIter
    \/ CallLen
    \/ CallNodes
    \/ CallIsEmpty

SpecNodes == InitNodes /\ [][NextNodes]_vars

\* ------------------------------------------------------------------------
\* The config loader: one string, then calls on it
\* ------------------------------------------------------------------------

InitLoad ==
    /\ \E t \in Texts(MaxJsonNodes) : arg = [kind |-> "text", text |-> t]
    /\ container = Unbuilt
    /\ ret = NoCall
    /\ AppIdle

\* load_from_str(s)
CallLoadFromStr ==
    /\ arg.kind = "text"
    /\ ret' = [op |-> "load_from_str"] @@ load_from_str(arg.text)
    /\ UNCHANGED <<arg, container, appVars>>

\* validate(&value), on the value the string parses to
CallValidate ==
    /\ arg.kind = "text"
    /\ from_str(arg.text).ok
    /\ ret' = [op |-> "validate", result |-> validate(from_str(arg.text).value)]
    /\ UNCHANGED <<arg, container, appVars>>

\* crates/config/src/loader.rs: load_from_str(s), which is s.parse::<Config>()
CallConfigFromStr ==
    /\ arg.kind = "text"
    /\ ret' = [op |-> "Config::from_str", result |-> Config_from_str(arg.text)]
    /\ UNCHANGED <<arg, container, appVars>>

\* serde_json::from_value::<Entry>(item), on an element of the sequence the
\* string has under "actions"
CallDeserializeEntry ==
    /\ arg.kind = "text"
    /\ from_str(arg.text).ok
    /\ from_str(arg.text).value.t = "obj"
    /\ HasKey(from_str(arg.text).value, "actions")
    /\ Field(from_str(arg.text).value, "actions").t = "arr"
    /\ \E i \in DOMAIN Field(from_str(arg.text).value, "actions").items :
          \E item \in {Field(from_str(arg.text).value, "actions").items[i]} :
             ret' = [op |-> "Entry::deserialize", input |-> item,
                     result |-> deserialize_Entry(item)]
    /\ UNCHANGED <<arg, container, appVars>>

\* serde_json::to_string(&config) on the Config the string parses to, then
\* the result parsed again, by s.parse::<Config>() and by serde_json::from_str
CallRoundTrip ==
    /\ arg.kind = "text"
    /\ \E parsed \in {Config_from_str(arg.text)} :
          /\ parsed.ok
          /\ \E serialized \in {to_string(parsed.value)} :
                ret' = [op |-> "to_string", config |-> parsed.value,
                        serialized |-> serialized,
                        parsed |-> Config_from_str(serialized),
                        decoded |-> from_str_Config(serialized)]
    /\ UNCHANGED <<arg, container, appVars>>

NextLoad ==
    \/ CallLoadFromStr
    \/ CallValidate
    \/ CallConfigFromStr
    \/ CallDeserializeEntry
    \/ CallRoundTrip

SpecLoad == InitLoad /\ [][NextLoad]_vars

\* ------------------------------------------------------------------------
\* The application: init, then menu events
\* ------------------------------------------------------------------------

InitApp ==
    /\ arg = [kind |-> "none"]
    /\ container = Unbuilt
    /\ ret = NoCall
    /\ target_os \in {"linux", "macos"}
    /\ \E config \in ConfigFiles, ssh \in SshFiles : files = Files(config, ssh)
    /\ app = Application_default
    /\ receiver = <<>>
    /\ effects = <<>>
    /\ loaded = NoLoad
    /\ pc = "start"

\* app.init(), from run_gtk_thread on Linux and from new_events elsewhere
AppInit ==
    /\ pc = "start"
    /\ \E writable \in BOOLEAN :
          \E started \in {init(app, files, writable)} :
              /\ app' = started.self
              /\ files' = started.files
              /\ loaded' = LoadOf(started.files, "init")
    /\ pc' = "running"
    /\ UNCHANGED <<target_os, receiver, libVars>>
    /\ effects' = <<>>

\* The user picks an item of the menu the tray shows.
Click ==
    /\ pc = "running"
    /\ app.tray.icon.some
    /\ Len(receiver) < MaxQueue
    /\ \E id \in MenuIds(app.tray.icon.value.menu) :
          receiver' = Append(receiver, MenuEvent(id, FALSE))
    /\ UNCHANGED <<target_os, files, app, loaded, pc, libVars>>
    /\ effects' = <<>>

\* The user saves another config file.
EditConfig ==
    /\ pc = "running"
    /\ files.config.home
    /\ \E config \in ConfigFiles \ {NoHome, files.config} :
          files' = [files EXCEPT !.config = config]
    /\ UNCHANGED <<target_os, app, receiver, loaded, pc, libVars>>
    /\ effects' = <<>>

\* The user saves another SSH config.
EditSsh ==
    /\ pc = "running"
    /\ \E ssh \in SshFiles \ {files.ssh} : files' = [files EXCEPT !.ssh = ssh]
    /\ UNCHANGED <<target_os, app, receiver, loaded, pc, libVars>>
    /\ effects' = <<>>

\* user_event off Linux: one event, handled on the winit thread.
UserEvent ==
    /\ pc = "running"
    /\ target_os # "linux"
    /\ receiver # <<>>
    /\ \E w \in {Dispatch(World(app, Tail(receiver), <<>>, loaded, FALSE), files,
                          Head(receiver))} :
           /\ app' = w.self
           /\ receiver' = w.receiver
           /\ effects' = w.effects
           /\ loaded' = w.loaded
           /\ pc' = IF w.exit THEN "exited" ELSE "running"
           /\ ret' = HandlerCall(w.exit, UnknownId(app, Head(receiver).id))
    /\ UNCHANGED <<target_os, files, arg, container>>

\* The 50 ms timeout callback of the GTK thread: every queued event, until
\* one asks to quit; then the quit event goes to the winit loop.
GtkPoll ==
    /\ pc = "running"
    /\ target_os = "linux"
    /\ \E w \in {Drain(World(app, receiver, <<>>, loaded, FALSE), files)} :
           /\ app' = w.self
           /\ receiver' = w.receiver
           /\ effects' = w.effects
           /\ loaded' = w.loaded
           /\ pc' = IF w.exit THEN "quitting" ELSE "running"
           /\ ret' = IF receiver = <<>> THEN ret
                     ELSE HandlerCall(w.exit,
                                      DrainUnknown(World(app, receiver, <<>>, loaded, FALSE),
                                                   files))
    /\ UNCHANGED <<target_os, files, arg, container>>

\* user_event on Linux: the quit signal from the GTK thread.
UserEventLinux ==
    /\ pc = "quitting"
    /\ target_os = "linux"
    /\ pc' = "exited"
    /\ UNCHANGED <<target_os, files, app, receiver, loaded, libVars>>
    /\ effects' = <<>>

NextApp ==
    \/ AppInit
    \/ Click
    \/ EditConfig
    \/ EditSsh
    \/ UserEvent
    \/ GtkPoll
    \/ UserEventLinux

SpecApp == InitApp /\ [][NextApp]_vars

\* The winit loop is running while the GTK thread polls, and takes a user
\* event sent through its proxy.
SpecAppFair == SpecApp /\ WF_vars(UserEventLinux)

\* ------------------------------------------------------------------------
\* The loaders: one environment, then calls on it
\* ------------------------------------------------------------------------

\* The contents ~/.ssh/config can have: the ones of SshFiles, a file without
\* Host lines, and a file whose only pattern is a wildcard.
SshContents ==
    SshFiles \cup {SshHosts(<<>>), SshHosts(<<<<Clause("*", TRUE, FALSE)>>>>)}

\* The environments: with and without a home directory; the config file
\* missing, unreadable, or holding a text; the SSH config likewise.
Envs(max) ==
    {Env(home, config, ssh) :
        home \in BOOLEAN,
        config \in {NoFile, Unreadable} \cup {OnDisk(t) : t \in Texts(max)},
        ssh \in {NoFile, Unreadable} \cup {OnDisk(c) : c \in SshContents}}

InitSettings ==
    /\ \E env \in Envs(MaxJsonNodes) : arg = [kind |-> "env", env |-> env]
    /\ container = Unbuilt
    /\ ret = NoCall
    /\ AppIdle

\* Settings::load()
CallSettingsLoad ==
    /\ arg.kind = "env"
    /\ ret' = [op |-> "Settings::load", result |-> Settings_load(arg.env),
               reads |-> Settings_load_traced(arg.env).reads]
    /\ UNCHANGED <<arg, container, appVars>>

\* loaders::ssh::parse_ssh_config()
CallLoadersParseSshConfig ==
    /\ arg.kind = "env"
    /\ ret' = [op |-> "loaders::ssh::parse_ssh_config",
               result |-> loaders_parse_ssh_config(arg.env)]
    /\ UNCHANGED <<arg, container, appVars>>

\* sources::config::load()
CallLoad ==
    /\ arg.kind = "env"
    /\ ret' = [op |-> "sources::config::load", result |-> sources_config_load(arg.env)]
    /\ UNCHANGED <<arg, container, appVars>>

\* crates/config/src/loader.rs: load()
CallLoaderLoad ==
    /\ arg.kind = "env"
    /\ ret' = [op |-> "loader::load", result |-> loader_load(arg.env)]
    /\ UNCHANGED <<arg, container, appVars>>

\* crates/config/src/lib.rs: Config::load()
CallConfigLoad ==
    /\ arg.kind = "env"
    /\ ret' = [op |-> "Config::load", result |-> Config_load(arg.env)]
    /\ UNCHANGED <<arg, container, appVars>>

\* crates/ssh/src/lib.rs: parse_ssh_config()
CallParseSshConfig ==
    /\ arg.kind = "env"
    /\ ret' = [op |-> "ssh::parse_ssh_config",
               result |-> parse_ssh_config(parse_default_file(arg.env))]
    /\ UNCHANGED <<arg, container, appVars>>

NextSettings ==
    \/ CallSettingsLoad
    \/ CallLoadersParseSshConfig
    \/ CallLoad
    \/ CallLoaderLoad
    \/ CallConfigLoad
    \/ CallParseSshConfig

SpecSettings == InitSettings /\ [][NextSettings]_vars

\* ------------------------------------------------------------------------
\* The menu: the two containers of one load, then build_menu
\* ------------------------------------------------------------------------

InitMenu ==
    /\ \E es \in EntryTrees(MaxMenuNodes), hs \in HostLists :
          arg = [kind |-> "load", entries |-> es, hostnames |-> hs]
    /\ container = Unbuilt
    /\ ret = NoCall
    /\ AppIdle

\* The Settings of Settings::load, whose containers are made one after the
\* other by from_entries and from_hostnames
CallNodesOfLoad ==
    /\ arg.kind = "load"
    /\ ret.op = "none"
    /\ ret' = [op |-> "settings",
               settings |-> Settings(DEFAULT_TERMINAL, DEFAULT_EDITOR,
                                     from_entries(arg.entries),
                                     from_hostnames(arg.hostnames))]
    /\ UNCHANGED <<arg, container, appVars>>

\* build_menu(&settings)
CallBuildMenu ==
    /\ ret.op \in {"settings", "build_menu"}
    /\ ret' = [op |-> "build_menu", settings |-> ret.settings,
               menu |-> tray_build_menu(ret.settings)]
    /\ UNCHANGED <<arg, container, appVars>>

NextMenu ==
    \/ CallNodesOfLoad
    \/ CallBuildMenu

SpecMenu == InitMenu /\ [][NextMenu]_vars

\* ------------------------------------------------------------------------
\* The terminal: one machine, then detect and launch on it
\* ------------------------------------------------------------------------

\* The values of $TERMINAL: unset, the name of a known terminal, a path to
\* one, a terminal the program does not know, the empty string.
TerminalEnvs ==
    {None, Some(<<"x", "t", "e", "r", "m">>), Some(<<"/", "u", "s", "r", "/", "b", "i", "n", "/", "k", "i", "t", "t", "y">>), Some(<<"f", "o", "o", "t">>), Some(<<>>)}

\* What which can find on Linux: the known binaries and one other.
LinuxBinaries == {linux_bin(linux_all[i]).value : i \in DOMAIN linux_all} \cup {<<"f", "o", "o", "t">>}

\* What mdfind can list on macOS: the known applications and one other.
MacosApps == {macos_app(macos_all[i]).value : i \in DOMAIN macos_all} \cup {<<"A", "l", "a", "c", "r", "i", "t", "t", "y">>}

\* The subsets of at most max elements.
UpTo(set, max) == {s \in SUBSET set : Cardinality(s) <= max}

InitTerminal ==
    /\ \/ \E self \in {"Default"} \cup Range(linux_all), term_env \in TerminalEnvs,
             path \in UpTo(LinuxBinaries, MaxInstalled) :
             arg = [kind |-> "machine", os |-> "linux", self |-> self,
                    term_env |-> term_env, installed |-> path]
       \/ \E self \in {"Auto"} \cup Range(macos_all), apps \in UpTo(MacosApps, MaxInstalled) :
             arg = [kind |-> "machine", os |-> "macos", self |-> self,
                    term_env |-> None, installed |-> apps]
    /\ container = Unbuilt
    /\ ret = NoCall
    /\ AppIdle

\* self.detect()
CallDetect ==
    /\ arg.kind = "machine"
    /\ ret' = [op |-> "detect",
               result |-> IF arg.os = "linux"
                          THEN linux_detect(arg.self, arg.term_env, arg.installed)
                          ELSE macos_detect(arg.self, arg.installed)]
    /\ UNCHANGED <<arg, container, appVars>>

\* self.launch(command); writing the script and spawning can fail.
CallLaunch ==
    /\ arg.kind = "machine"
    /\ \E script_ok \in BOOLEAN, spawn_ok \in BOOLEAN :
          ret' = [op |-> "launch",
                  outcome |-> IF arg.os = "linux"
                              THEN linux_launch(arg.self, arg.term_env, arg.installed, spawn_ok)
                              ELSE macos_launch(arg.self, arg.installed, script_ok, spawn_ok)]
    /\ UNCHANGED <<arg, container, appVars>>

NextTerminal ==
    \/ CallDetect
    \/ CallLaunch

SpecTerminal == InitTerminal /\ [][NextTerminal]_vars

\* ------------------------------------------------------------------------
\* Traversals the properties are stated with
\* ------------------------------------------------------------------------

RECURSIVE LeavesOf(_)

\* The Leaf nodes of a Node sequence, in depth-first left-to-right order.
LeavesOf(ns) ==
    IF ns = <<>>
    THEN <<>>
    ELSE (IF Head(ns).kind = "Leaf" THEN <<Head(ns)>> ELSE LeavesOf(Head(ns).children))
         \o LeavesOf(Tail(ns))

RECURSIVE ActionsOf(_)

\* The Actions of an Entry sequence, in depth-first left-to-right order.
ActionsOf(es) ==
    IF es = <<>>
    THEN <<>>
    ELSE (IF Head(es).kind = "Action" THEN <<Head(es).action>> ELSE ActionsOf(Head(es).entries))
         \o ActionsOf(Tail(es))

RECURSIVE GroupNodesOf(_)

\* The Group nodes of a Node sequence, at every depth.
GroupNodesOf(ns) ==
    IF ns = <<>>
    THEN <<>>
    ELSE (IF Head(ns).kind = "Group"
          THEN <<Head(ns)>> \o GroupNodesOf(Head(ns).children)
          ELSE <<>>)
         \o GroupNodesOf(Tail(ns))

RECURSIVE SameShape(_, _)

\* Node sequence ns mirrors Entry sequence es: same length, and position by
\* position an Action under a Leaf holding it, a Group under a Group node of
\* the same name whose children mirror its entries.
SameShape(es, ns) ==
    /\ Len(es) = Len(ns)
    /\ \A i \in 1..Len(es) :
          IF es[i].kind = "Action"
          THEN ns[i].kind = "Leaf" /\ ns[i].value = es[i].action
          ELSE /\ ns[i].kind = "Group"
               /\ ns[i].name = es[i].name
               /\ SameShape(es[i].entries, ns[i].children)

\* Some Group node of the tree has a Leaf among its children.
HasNestedLeaf(ns) ==
    \E i \in DOMAIN GroupNodesOf(ns) :
       \E j \in DOMAIN GroupNodesOf(ns)[i].children :
          GroupNodesOf(ns)[i].children[j].kind = "Leaf"

\* Some Group node of the tree has no children.
HasEmptyGroup(ns) ==
    \E i \in DOMAIN GroupNodesOf(ns) : GroupNodesOf(ns)[i].children = <<>>

FromEntriesDone == container.built /\ arg.kind = "entries"

\* ------------------------------------------------------------------------
\* Properties of the container
\* ------------------------------------------------------------------------

\* C1: in every Nodes<Action> that from_entries produced, each Leaf{id, value}
\* of the tree satisfies get(id) = Some(value), and each index below len() is
\* the id of exactly one Leaf of the tree.
C1_LeafTableBijection ==
    FromEntriesDone =>
        LET ls == LeavesOf(nodes(container))
        IN  /\ \A i \in DOMAIN ls : get(container, ls[i].id) = Some(ls[i].value)
            /\ \A k \in 0..(len(container) - 1) :
                  Cardinality({i \in DOMAIN ls : index(ls[i].id) = k}) = 1

\* C1 witness: a built container with a Leaf inside a Group, an empty Group,
\* and at least two leaves.
C1_Witness ==
    /\ FromEntriesDone
    /\ HasNestedLeaf(nodes(container))
    /\ HasEmptyGroup(nodes(container))
    /\ len(container) >= 2

\* C2: the k-th Action of the input in depth-first left-to-right order
\* (counted from 0) is the Leaf with id k; Groups take no id.
C2_PreOrderIds ==
    FromEntriesDone =>
        LET ls == LeavesOf(nodes(container))
            as == ActionsOf(arg.entries)
        IN  /\ Len(ls) = Len(as)
            /\ \A k \in DOMAIN ls : index(ls[k].id) = k - 1 /\ ls[k].value = as[k]

\* C2 witness: the input starts with a Group, holds an Action inside a Group
\* and an Action after it.
C2_Witness ==
    /\ FromEntriesDone
    /\ Len(arg.entries) >= 2
    /\ arg.entries[1].kind = "Group"
    /\ arg.entries[1].entries # <<>>
    /\ arg.entries[2].kind = "Action"
    /\ HasNestedLeaf(nodes(container))

\* C3: get(id) returns Some exactly when id.index() < len(), None otherwise,
\* and never panics.
C3_GetTotal ==
    ret.op = "get" =>
        /\ ret.result = None \/ (\E v \in Range(container.leaves) : ret.result = Some(v))
        /\ (ret.result # None) <=> (index(ret.id) < len(container))

\* C3 witness: get was called with the first id beyond a non-empty table and
\* returned None.
C3_Witness ==
    /\ ret.op = "get"
    /\ len(container) > 0
    /\ index(ret.id) = len(container)
    /\ ret.result = None

\* C4: iter() yields len() pairs with ids 0, 1, ..., len()-1 in this order,
\* and get(id) returns Some of the value yielded with id.
C4_IterMatchesGet ==
    ret.op = "iter" =>
        /\ Len(ret.items) = len(container)
        /\ \A i \in DOMAIN ret.items :
              /\ index(ret.items[i][1]) = i - 1
              /\ get(container, ret.items[i][1]) = Some(ret.items[i][2])

\* C4 witness: iter() was called on a container with at least two leaves.
C4_Witness ==
    /\ ret.op = "iter"
    /\ Len(ret.items) >= 2

\* C5: len() is the number of Leaf nodes a depth-first traversal of nodes()
\* reaches.
C5_LenCountsLeaves ==
    ret.op = "len" => ret.result = Len(LeavesOf(nodes(container)))

\* C5 witness: len() was called on a tree with an empty Group and a Leaf
\* inside a Group, and fewer leaves than top-level nodes or more.
C5_Witness ==
    /\ ret.op = "len"
    /\ HasEmptyGroup(nodes(container))
    /\ HasNestedLeaf(nodes(container))
    /\ ret.result # Len(nodes(container))

\* C6: the tree nodes() returns mirrors the input entry tree: Action to Leaf,
\* Group to Group node of the same name with the same number and order of
\* children, a Group without entries to a Group node without children.
C6_ShapePreserved ==
    (ret.op = "nodes" /\ arg.kind = "entries") => SameShape(arg.entries, ret.result)

\* C6 witness: nodes() was called on the conversion of a Group that holds an
\* empty Group.
C6_Witness ==
    /\ ret.op = "nodes"
    /\ arg.kind = "entries"
    /\ \E i \in DOMAIN ret.result :
          /\ ret.result[i].kind = "Group"
          /\ \E j \in DOMAIN ret.result[i].children :
                /\ ret.result[i].children[j].kind = "Group"
                /\ ret.result[i].children[j].children = <<>>

\* ------------------------------------------------------------------------
\* Properties of the application
\* ------------------------------------------------------------------------

\* The id table a load gives.
TableOf(load) == build_menu(load.config.entries, load.hosts).menu_id_map

\* What configure does under a load's config.
ConfigureOf(load) ==
    IF load.config.editor = "default" THEN Open("default")
    ELSE IF is_terminal_editor(load.config.editor)
         THEN Launch(load.config.terminal, <<load.config.editor, " ", "path">>)
    ELSE Open(load.config.editor)

\* C7: whenever a handler is about to run or has run, the config and the id
\* table the application holds are those of one and the same load, the menu
\* shown is that load's, and everything a handler dispatched used the
\* terminal, the editor, the actions and the hosts of the load that was
\* current when it ran.
C7_NoHalfUpdatedState ==
    pc \in {"running", "quitting", "exited"} =>
        /\ app.config = Some(loaded.config)
        /\ app.menu_id_map = TableOf(loaded)
        /\ app.tray.icon.some =>
              app.tray.icon.value.menu = build_menu(loaded.config.entries, loaded.hosts).menu
        /\ \A i \in DOMAIN effects :
              LET d == effects[i]
              IN  IF d.id = MENU_ID_CONFIGURE
                  THEN d.effect = ConfigureOf(d.load)
                  ELSE /\ d.id \in DOMAIN TableOf(d.load)
                       /\ d.effect = Launch(d.load.config.terminal, TableOf(d.load)[d.id])

\* C7 witness: after a reload that read a config file and hosts, a click in
\* the new menu was dispatched.
C7_Witness ==
    /\ pc = "running"
    /\ loaded.by = "reload"
    /\ loaded.config.terminal = "kitty"
    /\ loaded.hosts # <<>>
    /\ \E i \in DOMAIN effects :
          /\ ~effects[i].stale
          /\ effects[i].load = loaded
          /\ effects[i].id \in DOMAIN TableOf(loaded)

\* C8: no id clicked in the menu of an earlier load is resolved against the
\* id table of a later load: everything launched from the table answers an
\* event whose menu was still the current one.
C8_StaleIdNotResolved ==
    \A i \in DOMAIN effects :
        effects[i].id # MENU_ID_CONFIGURE => ~effects[i].stale

\* ------------------------------------------------------------------------
\* Properties of the config loader
\* ------------------------------------------------------------------------

RECURSIVE HoldsGroupNamed(_, _)

\* Some Group of the entry sequence, at any depth, is named n and not empty.
HoldsGroupNamed(es, n) ==
    \E i \in DOMAIN es :
       /\ es[i].kind = "Group"
       /\ \/ es[i].name = n /\ es[i].entries # <<>>
          \/ HoldsGroupNamed(es[i].entries, n)

\* C9: load_from_str puts every string in exactly one class, decided in this
\* order: not JSON gives the syntax error and the validator is not run; JSON
\* that violates the schema gives the validation error with a non-empty list
\* and is not deserialized; only a schema-valid value is deserialized, and
\* only such a value yields a configuration.
C9_LoadOrder ==
    ret.op = "load_from_str" =>
        LET value == from_str(arg.text)
        IN  /\ ~value.ok =>
                  /\ ~ret.result.ok
                  /\ ret.result.error.kind = "ConfigParse"
                  /\ ret.ran = <<"parse">>
            /\ (value.ok /\ SchemaErrors(value.value) # <<>>) =>
                  /\ ~ret.result.ok
                  /\ ret.result.error.kind = "ConfigValidation"
                  /\ ret.result.error.errors = SchemaErrors(value.value)
                  /\ ret.result.error.errors # <<>>
                  /\ ret.ran = <<"parse", "validate">>
            /\ (value.ok /\ SchemaErrors(value.value) = <<>>) =>
                  /\ ret.ran = <<"parse", "validate", "deserialize">>
                  /\ ret.result.ok \/ ret.result.error.kind = "ConfigParse"
            /\ ret.result.ok => (value.ok /\ validate(value.value) = Valid)

\* C9 witness: load_from_str returned the validation error for a document
\* whose only violations are an unknown key and a wrongly typed terminal,
\* which deserialization alone would have ignored or reported differently.
C9_Witness ==
    /\ ret.op = "load_from_str"
    /\ ~ret.result.ok
    /\ ret.result.error.kind = "ConfigValidation"
    /\ Len(ret.result.error.errors) = 2
    /\ ret.ran = <<"parse", "validate">>

\* C10: every value the validator accepts deserializes: when the string is
\* JSON and validate says Valid, from_value succeeds and load_from_str
\* returns the configuration.
C10_ValidDeserializes ==
    (ret.op = "load_from_str" /\ from_str(arg.text).ok
        /\ validate(from_str(arg.text).value) = Valid) =>
        /\ from_value(from_str(arg.text).value).ok
        /\ ret.result.ok
        /\ ret.result.value = from_value(from_str(arg.text).value).value

\* C10 witness: a validated document with a non-empty Group named "name" was
\* loaded.
C10_Witness ==
    /\ ret.op = "load_from_str"
    /\ ret.result.ok
    /\ ret.result.value.actions.some
    /\ HoldsGroupNamed(ret.result.value.actions.value, "name")

\* ------------------------------------------------------------------------
\* Properties of the settings loaders
\* ------------------------------------------------------------------------

\* The kinds of SettingsError.
SettingsErrorKinds == {"NoHomeDir", "ConfigIo", "ConfigParse", "ConfigValidation", "SshParse"}

ResultOps ==
    {"Settings::load", "loaders::ssh::parse_ssh_config", "sources::config::load",
     "loader::load"}

\* The call returned an error to its caller.
ReturnedError == ret.op \in ResultOps /\ ~ret.result.ok

\* Reading, parsing or validating the config file fails: there is a file and
\* it cannot be read, or its text is rejected.
ConfigFileFails(env) ==
    /\ env.home
    /\ env.config.exists
    /\ \/ ~env.config.readable
       \/ ~load_from_str(env.config.content).result.ok

\* The existing SSH config cannot be parsed.
SshConfigFails(env) ==
    /\ env.home
    /\ env.ssh.exists
    /\ \/ ~env.ssh.readable
       \/ ~env.ssh.content.parsed

\* C12: no loading function turns a failure into a default or empty value:
\* when reading, parsing or validating the config file fails, every function
\* that loads the config returns an error; when the existing SSH config cannot
\* be parsed, every function that loads the hosts returns an error.
C12_NoFailureSwallowed ==
    /\ (/\ ret.op \in {"Settings::load", "sources::config::load", "loader::load",
                       "Config::load"}
        /\ ConfigFileFails(arg.env)) => ReturnedError
    /\ (/\ ret.op \in {"Settings::load", "loaders::ssh::parse_ssh_config",
                       "ssh::parse_ssh_config"}
        /\ SshConfigFails(arg.env)) => ReturnedError

\* C13: with a home directory, an absent SSH config gives the empty host list
\* and no error; one that exists and cannot be parsed gives the SshParse
\* error, from the host loader and from Settings::load once the config has
\* loaded; Settings::load never succeeds on a malformed SSH config.
C13_AbsentEmptyMalformedFails ==
    /\ (ret.op = "loaders::ssh::parse_ssh_config" /\ arg.env.home) =>
          /\ ~arg.env.ssh.exists => ret.result = Ok(<<>>)
          /\ SshConfigFails(arg.env) =>
                ~ret.result.ok /\ ret.result.error.kind = "SshParse"
    /\ (ret.op = "Settings::load" /\ sources_config_load(arg.env).ok) =>
          /\ ~arg.env.ssh.exists =>
                /\ ret.result.ok
                /\ is_empty(ret.result.value.hosts)
                /\ nodes(ret.result.value.hosts) = <<>>
          /\ SshConfigFails(arg.env) =>
                ~ret.result.ok /\ ret.result.error.kind = "SshParse"
    /\ (ret.op = "Settings::load" /\ SshConfigFails(arg.env)) => ~ret.result.ok

\* Settings::load has run where the config file is missing and the SSH
\* config is a file that does not parse.
C13_Witness ==
    /\ ret.op = "Settings::load"
    /\ arg.env.home
    /\ ~arg.env.config.exists
    /\ arg.env.ssh.exists
    /\ arg.env.ssh.readable
    /\ ~arg.env.ssh.content.parsed
    /\ ~ret.result.ok

\* The host source is empty: no SSH config, or one without a plain name.
HostSourceEmpty(env) ==
    \/ ~env.ssh.exists
    \/ env.ssh.readable /\ env.ssh.content.parsed /\ push_hosts(env.ssh.content.hosts) = <<>>

\* C14: with a home directory and no config file, Settings::load fails only
\* if the SSH config does, and then with SshParse; otherwise it returns
\* terminal "default", editor "default" and an action container of length 0
\* with an empty tree, and empty hosts when the host source is empty.
C14_MissingConfigIsDefault ==
    (ret.op = "Settings::load" /\ arg.env.home /\ ~arg.env.config.exists) =>
        /\ ret.result.ok <=> ~SshConfigFails(arg.env)
        /\ ~ret.result.ok => ret.result.error.kind = "SshParse"
        /\ ret.result.ok =>
              /\ ret.result.value.terminal = "default"
              /\ ret.result.value.editor = "default"
              /\ len(ret.result.value.actions) = 0
              /\ is_empty(ret.result.value.actions)
              /\ nodes(ret.result.value.actions) = <<>>
        /\ (ret.result.ok /\ HostSourceEmpty(arg.env)) =>
              /\ len(ret.result.value.hosts) = 0
              /\ nodes(ret.result.value.hosts) = <<>>
              /\ ret.result.value = Settings_default

\* Settings::load has succeeded with a home directory, no config file and an
\* SSH config that names hosts.
C14_Witness ==
    /\ ret.op = "Settings::load"
    /\ arg.env.home
    /\ ~arg.env.config.exists
    /\ ret.result.ok
    /\ len(ret.result.value.hosts) > 0
    /\ len(ret.result.value.actions) = 0

\* C15: without a home directory every function that loads the config fails
\* with NoHomeDir, whatever files there are; none falls back to a default
\* configuration.
C15_NoHomeIsNoHomeDir ==
    (/\ ret.op \in {"Settings::load", "sources::config::load", "loader::load", "Config::load"}
     /\ ~arg.env.home) =>
        /\ ReturnedError
        /\ ret.result.error.kind = "NoHomeDir"

\* ------------------------------------------------------------------------
\* Properties of validation and decoding
\* ------------------------------------------------------------------------

\* The document is an object with a key other than terminal, editor, actions.
HasUnknownTopLevelKey(value) ==
    value.t = "obj" /\ ~(Keys(value) \subseteq TopLevelKeys)

RECURSIVE HoldsActionWithExtraKey(_)

\* Some item of the sequence, at any depth, is an object with name, cmd and a
\* further key.
HoldsActionWithExtraKey(items) ==
    \E i \in DOMAIN items :
       /\ items[i].t = "obj"
       /\ \/ {"name", "cmd"} \subseteq Keys(items[i]) /\ Keys(items[i]) # {"name", "cmd"}
          \/ /\ Len(items[i].members) = 1
             /\ items[i].members[1].v.t = "arr"
             /\ HoldsActionWithExtraKey(items[i].members[1].v.items)

\* The document's actions hold an action object with a further key.
HasActionWithExtraKey(value) ==
    /\ value.t = "obj"
    /\ HasKey(value, "actions")
    /\ Field(value, "actions").t = "arr"
    /\ HoldsActionWithExtraKey(Field(value, "actions").items)

\* C16: a well-formed document with an unknown top-level key, or with an
\* action object that has a key other than name and cmd, is rejected by
\* validation: validate says Invalid, and load_from_str and Config::from_str
\* return their validation error, not a configuration.
C16_UnknownKeysRejected ==
    (/\ arg.kind = "text"
     /\ from_str(arg.text).ok
     /\ \/ HasUnknownTopLevelKey(from_str(arg.text).value)
        \/ HasActionWithExtraKey(from_str(arg.text).value)) =>
        /\ ret.op = "validate" => ~ret.result.valid
        /\ ret.op = "load_from_str" =>
              ~ret.result.ok /\ ret.result.error.kind = "ConfigValidation"
        /\ ret.op = "Config::from_str" =>
              ~ret.result.ok /\ ret.result.error.kind = "ValidationFailed"

\* load_from_str has rejected a document whose top-level keys are known and
\* whose actions hold an action object with a further key.
C16_Witness ==
    /\ ret.op = "load_from_str"
    /\ from_str(arg.text).ok
    /\ ~HasUnknownTopLevelKey(from_str(arg.text).value)
    /\ HasActionWithExtraKey(from_str(arg.text).value)
    /\ ~ret.result.ok
    /\ ret.result.error.kind = "ConfigValidation"

\* Where a value violates the schema, one path for each violation: the
\* document itself when it is no object; each unknown top-level key; terminal
\* or editor that is no string; actions that is no sequence; each element of
\* actions that is no entry.
ViolationPaths(value) ==
    IF value.t # "obj" THEN {<<>>}
    ELSE {<<KeySeg(k)>> : k \in Keys(value) \ TopLevelKeys}
         \cup {<<KeySeg(k)>> : k \in {k \in {"terminal", "editor"} \cap Keys(value) :
                                          Field(value, k).t # "str"}}
         \cup (IF HasKey(value, "actions")
               THEN IF Field(value, "actions").t # "arr"
                    THEN {<<KeySeg("actions")>>}
                    ELSE {<<KeySeg("actions"), IdxSeg(i - 1)>> :
                             i \in {i \in DOMAIN Field(value, "actions").items :
                                       ~EntryConforms(Field(value, "actions").items[i])}}
               ELSE {})

\* C17: validate returns on every value; the result is Valid exactly when the
\* value has no violation; otherwise the errors of Invalid cover every
\* violation, not the first only, and each error has a path and a message.
C17_AllViolationsReported ==
    ret.op = "validate" =>
        LET value == from_str(arg.text).value
        IN  /\ ret.result.valid <=> ViolationPaths(value) = {}
            /\ ret.result.valid => ret.result = Valid
            /\ ~ret.result.valid =>
                  /\ {ret.result.errors[i].path : i \in DOMAIN ret.result.errors}
                        = ViolationPaths(value)
                  /\ Len(ret.result.errors) >= Cardinality(ViolationPaths(value))
                  /\ \A i \in DOMAIN ret.result.errors :
                        /\ DOMAIN ret.result.errors[i] = {"path", "message"}
                        /\ ret.result.errors[i].message # ""

\* validate has reported a wrongly typed terminal and an unknown top-level
\* key of one document.
C17_Witness ==
    /\ ret.op = "validate"
    /\ ~ret.result.valid
    /\ \E i, j \in DOMAIN ret.result.errors :
          /\ ret.result.errors[i].path = <<KeySeg("terminal")>>
          /\ ret.result.errors[j].path \notin {<<KeySeg(k)>> : k \in TopLevelKeys}
          /\ Len(ret.result.errors[j].path) = 1

RECURSIVE EntriesMatch(_, _)

\* The entry sequence es holds what the JSON sequence items says: an Action
\* for each object with name and cmd, with these two strings, and a Group for
\* each single-key object, named by the key and holding what the key's
\* sequence says, in the same order.
EntriesMatch(items, es) ==
    /\ Len(items) = Len(es)
    /\ \A i \in DOMAIN items :
          IF Keys(items[i]) = {"name", "cmd"}
          THEN /\ es[i].kind = "Action"
               /\ es[i].action.name = Field(items[i], "name").s
               /\ es[i].action.cmd = Field(items[i], "cmd").s
          ELSE /\ es[i].kind = "Group"
               /\ es[i].name = items[i].members[1].k
               /\ EntriesMatch(items[i].members[1].v.items, es[i].entries)

\* The text of the config file of env is a schema-valid document.
ValidConfigFile(env) ==
    /\ env.config.exists
    /\ env.config.readable
    /\ from_str(env.config.content).ok
    /\ ViolationPaths(from_str(env.config.content).value) = {}

\* C18: for a schema-valid config document, terminal, editor and actions
\* each take their default when absent ("default", "default", no entries)
\* and keep the document's value when present, whatever the other two are;
\* in the Settings of Settings::load and in the Config of the config crate's
\* load.
C18_DefaultsIndependent ==
    (/\ ret.op \in {"Settings::load", "loader::load"}
     /\ arg.env.home
     /\ ValidConfigFile(arg.env)
     /\ ret.op = "Settings::load" => ~SshConfigFails(arg.env)) =>
        LET doc == from_str(arg.env.config.content).value
            entries == IF ret.op = "loader::load" THEN ret.result.value.entries
                       ELSE unwrap_or(sources_config_load(arg.env).value.value.actions, <<>>)
        IN  /\ ret.result.ok
            /\ ret.result.value.terminal =
                  IF HasKey(doc, "terminal") THEN Field(doc, "terminal").s ELSE "default"
            /\ ret.result.value.editor =
                  IF HasKey(doc, "editor") THEN Field(doc, "editor").s ELSE "default"
            /\ IF HasKey(doc, "actions")
               THEN EntriesMatch(Field(doc, "actions").items, entries)
               ELSE entries = <<>>
            /\ ret.op = "Settings::load" => ret.result.value.actions = from_entries(entries)

\* Settings::load has read a document with an editor, without terminal and
\* with actions.
C18_Witness ==
    /\ ret.op = "Settings::load"
    /\ ret.result.ok
    /\ ValidConfigFile(arg.env)
    /\ Keys(from_str(arg.env.config.content).value) = {"editor", "actions"}
    /\ ret.result.value.terminal = "default"
    /\ ret.result.value.editor = "nano"
    /\ len(ret.result.value.actions) > 0

\* The value has the Action shape: an object with a string name and a string
\* cmd.
ActionShaped(v) ==
    /\ v.t = "obj"
    /\ HasKey(v, "name") /\ Field(v, "name").t = "str"
    /\ HasKey(v, "cmd") /\ Field(v, "cmd").t = "str"

RECURSIVE EntryShaped(_)

\* The value is an entry: Action-shaped, or an object with exactly one key
\* whose value is a sequence of entries.
EntryShaped(v) ==
    \/ ActionShaped(v)
    \/ /\ v.t = "obj"
       /\ Len(v.members) = 1
       /\ v.members[1].v.t = "arr"
       /\ \A i \in DOMAIN v.members[1].v.items : EntryShaped(v.members[1].v.items[i])

\* C19: decoding an entry gives an Action for an Action-shaped value, with
\* its name and cmd; otherwise a Group named by the key for an object with
\* exactly one key whose value is a sequence of entries; every other value
\* (an empty object, an object with several keys that is no Action, a value
\* that is no object) is rejected.
C19_ActionThenGroupElseRejected ==
    ret.op = "Entry::deserialize" =>
        IF ActionShaped(ret.input)
        THEN ret.result = Ok(EntryAction(Action(Field(ret.input, "name").s,
                                                Field(ret.input, "cmd").s)))
        ELSE IF EntryShaped(ret.input)
        THEN /\ ret.result.ok
             /\ ret.result.value.kind = "Group"
             /\ ret.result.value.name = ret.input.members[1].k
             /\ Len(ret.result.value.entries) = Len(ret.input.members[1].v.items)
        ELSE ~ret.result.ok

RECURSIVE SameEntries(_, _)

\* Two entry sequences are structurally equal: the same length, and at each
\* position two Actions with the same name and cmd, or two Groups with the
\* same name and structurally equal entries.
SameEntries(es, fs) ==
    /\ Len(es) = Len(fs)
    /\ \A i \in DOMAIN es :
          /\ es[i].kind = fs[i].kind
          /\ IF es[i].kind = "Action"
             THEN es[i].action.name = fs[i].action.name /\ es[i].action.cmd = fs[i].action.cmd
             ELSE es[i].name = fs[i].name /\ SameEntries(es[i].entries, fs[i].entries)

\* C20: a parsed configuration, serialized and parsed again, is structurally
\* the same: the second parse succeeds, terminal and editor are equal, and
\* the entries hold the same Actions and Groups at the same positions, no
\* Group read back as an Action and no Action as a Group.
C20_RoundTrip ==
    ret.op = "to_string" =>
        /\ ret.parsed.ok
        /\ ret.parsed.value.terminal = ret.config.terminal
        /\ ret.parsed.value.editor = ret.config.editor
        /\ SameEntries(ret.parsed.value.entries, ret.config.entries)
        /\ ret.decoded = ret.parsed
        /\ from_str(ret.serialized).value = serialize_Config(ret.config)

\* A configuration with a non-empty Group named "name" has gone through the
\* round trip.
C20_Witness ==
    /\ ret.op = "to_string"
    /\ ret.parsed.ok
    /\ HoldsGroupNamed(ret.config.entries, "name")
    /\ HoldsGroupNamed(ret.parsed.value.entries, "name")

\* ------------------------------------------------------------------------
\* Properties of the tray menu
\* ------------------------------------------------------------------------

RECURSIVE ItemsOf(_)
\* The items of a menu that have an id, submenus entered, in menu order.
ItemsOf(menu) ==
    IF menu = <<>> THEN <<>>
    ELSE (CASE Head(menu).kind = "item" -> <<Head(menu)>>
            [] Head(menu).kind = "submenu" -> ItemsOf(Head(menu).items)
            [] OTHER -> <<>>)
         \o ItemsOf(Tail(menu))

\* The id starts with the prefix and goes on.
HasPrefix(id, prefix) ==
    /\ Len(id) > Len(prefix)
    /\ SubSeq(id, 1, Len(prefix)) = prefix

RECURSIVE FromDecimal(_)
\* The number a sequence of decimal digits writes.
FromDecimal(digits) ==
    IF digits = <<>> THEN 0
    ELSE 10 * FromDecimal(SubSeq(digits, 1, Len(digits) - 1))
         + (CHOOSE d \in 0..9 : Digits[d + 1] = digits[Len(digits)])

\* The index an id holds after the prefix.
IndexAfter(id, prefix) == FromDecimal(SubSeq(id, Len(prefix) + 1, Len(id)))

FlatHosts(self, names) ==
    /\ Len(nodes(self)) = Len(names)
    /\ \A i \in DOMAIN names :
          /\ nodes(self)[i].kind = "Leaf"
          /\ nodes(self)[i].value = Host(names[i])
          /\ index(nodes(self)[i].id) = i - 1
    /\ len(self) = Len(names)
    /\ GroupNodesOf(nodes(self)) = <<>>

\* C22: from_hostnames makes of n names n top-level Leaf nodes in input
\* order, the i-th with Host{hostname = names[i]} and id i, no Group, and
\* len() = n; built in one load beside a container of actions, the host ids
\* still are 0 .. n-1 and the action ids 0 .. k-1, whatever the other holds.
C22_FlatHostsOwnIds ==
    ret.op \in {"settings", "build_menu"} =>
        /\ FlatHosts(ret.settings.hosts, arg.hostnames)
        /\ \A i \in DOMAIN iter(ret.settings.hosts) :
              index(iter(ret.settings.hosts)[i][1]) = i - 1
        /\ \A i \in DOMAIN iter(ret.settings.actions) :
              index(iter(ret.settings.actions)[i][1]) = i - 1

\* The two containers have been built in one load from two names and from
\* entries with two actions or more.
C22_Witness ==
    /\ ret.op = "settings"
    /\ Len(arg.hostnames) = 2
    /\ len(ret.settings.hosts) = 2
    /\ len(ret.settings.actions) >= 2

\* C23: len() and is_empty() speak of the flat table of leaves, not of the
\* tree nodes: is_empty() is true exactly when len() = 0, len() is the number
\* of Leaf nodes at any depth, and a tree of Groups only has len() = 0 and
\* is_empty() true with nodes() not empty.
C23_LenAndIsEmptyOfTable ==
    /\ container.built =>
          /\ is_empty(container) <=> len(container) = 0
          /\ len(container) = Len(LeavesOf(nodes(container)))
          /\ (nodes(container) # <<>> /\ LeavesOf(nodes(container)) = <<>>) =>
                len(container) = 0 /\ is_empty(container)
    /\ ret.op = "is_empty" => (ret.result <=> Len(LeavesOf(nodes(container))) = 0)
    /\ ret.op = "len" => ret.result = Len(LeavesOf(nodes(container)))

\* is_empty() has returned true on a container whose tree holds Groups.
C23_Witness ==
    /\ ret.op = "is_empty"
    /\ ret.result
    /\ nodes(container) # <<>>
    /\ HasEmptyGroup(nodes(container))

C25_DuplicatesKept ==
    FromEntriesDone =>
        LET occurrences == ActionsOf(arg.entries)
            ids == [k \in DOMAIN LeavesOf(nodes(container)) |->
                       LeavesOf(nodes(container))[k].id]
        IN  /\ len(container) = Len(occurrences)
            /\ Len(ids) = Len(occurrences)
            /\ \A i, j \in DOMAIN ids : i # j => ids[i] # ids[j]
            /\ \A k \in DOMAIN occurrences :
                  /\ get(container, ids[k]).some
                  /\ get(container, ids[k]).value.name = occurrences[k].name
                  /\ get(container, ids[k]).value.cmd = occurrences[k].cmd

\* The input held one Action twice over and a third of the same name with
\* another cmd.
C25_Witness ==
    /\ FromEntriesDone
    /\ \E i, j, k \in DOMAIN ActionsOf(arg.entries) :
          /\ i # j
          /\ ActionsOf(arg.entries)[i] = ActionsOf(arg.entries)[j]
          /\ ActionsOf(arg.entries)[k].name = ActionsOf(arg.entries)[i].name
          /\ ActionsOf(arg.entries)[k].cmd # ActionsOf(arg.entries)[i].cmd
    /\ len(container) >= 3

\* ------------------------------------------------------------------------
\* More properties of the settings loaders
\* ------------------------------------------------------------------------

\* C28: Settings::load calls the config loader first and the host loader
\* second: when the config loader fails, its error is what is returned and
\* the host loader is not called; an SshParse error is returned only where
\* the config loader succeeded and the host loader was called after it.
C28_ConfigBeforeSsh ==
    ret.op = "Settings::load" =>
        /\ ret.reads # <<>>
        /\ ret.reads[1] = "config::load"
        /\ ~sources_config_load(arg.env).ok =>
              /\ ret.result = sources_config_load(arg.env)
              /\ ret.reads = <<"config::load">>
        /\ (~ret.result.ok /\ ret.result.error.kind = "SshParse") =>
              /\ sources_config_load(arg.env).ok
              /\ ret.reads = <<"config::load", "ssh::parse_ssh_config">>
              /\ ret.result = loaders_parse_ssh_config(arg.env)

\* Settings::load has run where the config file is rejected and the SSH
\* config does not parse either: the error is the config's.
C28_Witness ==
    /\ ret.op = "Settings::load"
    /\ ConfigFileFails(arg.env)
    /\ SshConfigFails(arg.env)
    /\ ~ret.result.ok
    /\ ret.result.error.kind # "SshParse"
    /\ ret.reads = <<"config::load">>

\* ------------------------------------------------------------------------
\* Properties of the running application
\* ------------------------------------------------------------------------

\* C26: the application writes the config file only in init and only where
\* no file is, and what it writes is the embedded default document: a step
\* that changes the config file is the user's edit or that first write, so a
\* file that exists, valid or not, is never overwritten by init or reload.
C26_ConfigFileNotOverwritten ==
    [][files'.config # files.config =>
          \/ EditConfig
          \/ /\ AppInit
             /\ files.config = Absent
             /\ files'.config = Present(DEFAULT_JSON)]_vars

\* Init and then a reload have run on a config file that is not JSON: the
\* reload fell back to the default config and the file is as the user left it.
C26_Witness ==
    /\ pc = "running"
    /\ files.config = Present(ConfigTextInvalid)
    /\ loaded = LoadOf(files, "reload")
    /\ app.config = Some(Config_default)

\* The place of the first Quit event in a queue, 0 where there is none.
FirstQuit(queue) ==
    IF \E i \in DOMAIN queue : queue[i].id = MENU_ID_QUIT
    THEN CHOOSE i \in DOMAIN queue :
            /\ queue[i].id = MENU_ID_QUIT
            /\ \A j \in 1..(i - 1) : queue[j].id # MENU_ID_QUIT
    ELSE 0

\* The ids of the events of a queue, in order.
IdsOf(queue) == [i \in DOMAIN queue |-> queue[i].id]

\* C27 (Linux): the poll that handles a Quit event stops at it: the events
\* queued behind it stay unhandled, the tray icon is destroyed and the quit
\* notification is sent; after that no menu event is handled, nothing is
\* launched, no second notification is sent, and the winit loop exits once
\* it takes the notification.
C27_QuitIsFinal ==
    /\ [][target_os = "linux" =>
            /\ pc' = "quitting" =>
                  /\ pc \in {"running", "quitting"}
                  /\ pc = "running" =>
                        /\ FirstQuit(receiver) > 0
                        /\ IdsOf(receiver') =
                              IdsOf(SubSeq(receiver, FirstQuit(receiver) + 1, Len(receiver)))
                        /\ \A i \in DOMAIN effects' : effects'[i].id # MENU_ID_QUIT
                        /\ app'.tray.icon = None
            /\ pc \in {"quitting", "exited"} =>
                  /\ pc' \in {pc, "exited"}
                  /\ app' = app
                  /\ receiver' = receiver
                  /\ loaded' = loaded
                  /\ effects' = <<>>]_vars
    /\ [](target_os = "linux" /\ pc \in {"quitting", "exited"} => app.tray.icon = None)
    /\ (target_os = "linux" /\ pc = "quitting") ~> (pc = "exited")

\* The winit loop has exited on Linux with an event that was queued behind
\* the Quit event still unhandled.
C27_Witness ==
    /\ target_os = "linux"
    /\ pc = "exited"
    /\ receiver # <<>>
    /\ app.tray.icon = None

\* C29: a menu event whose id is none of quit, configure, reload and no key
\* of the id table launches nothing and makes handle_menu_event return
\* false; the stored config, the table and the tray menu are as before.
\* Off Linux the step handles the first queued event; on Linux the poll
\* handles all of them, and the frame is stated for a queue of unknown ids.
C29_UnknownIdIsNoOp ==
    /\ [][(/\ Len(receiver') < Len(receiver)
           /\ IF target_os = "linux"
              THEN \A i \in DOMAIN receiver : UnknownId(app, receiver[i].id)
              ELSE UnknownId(app, Head(receiver).id)) =>
              /\ app' = app
              /\ effects' = <<>>
              /\ loaded' = loaded
              /\ files' = files
              /\ pc' = "running"
              /\ ret' = HandlerCall(FALSE, TRUE)
              /\ receiver' = IF target_os = "linux" THEN <<>> ELSE Tail(receiver)]_vars
    /\ [](\A i \in DOMAIN receiver :
             UnknownId(app, receiver[i].id) =>
                 handle_menu_event(app, files, receiver[i].id) = Handled(app, FALSE, <<>>))

\* An event with an id that is not in the table has been handled while the
\* table holds commands: nothing was launched and the application runs on.
C29_Witness ==
    /\ ret = HandlerCall(FALSE, TRUE)
    /\ pc = "running"
    /\ effects = <<>>
    /\ DOMAIN app.menu_id_map # {}
    /\ app.tray.icon.some

\* ------------------------------------------------------------------------
\* Properties of the terminal
\* ------------------------------------------------------------------------

\* The placeholder variant of the platform.
Placeholder(os) == IF os = "linux" THEN "Default" ELSE "Auto"

\* The terminal is one of the platform's and what runs it is installed.
AvailableOn(machine, terminal) ==
    IF machine.os = "linux"
    THEN /\ terminal \in Range(linux_all)
         /\ linux_bin(terminal).some
         /\ linux_bin(terminal).value \in machine.installed
    ELSE /\ terminal \in Range(macos_all)
         /\ macos_app(terminal).some
         /\ macos_app(terminal).value \in machine.installed

\* No terminal of the platform is installed.
NoneAvailable(machine) ==
    \A terminal \in Range(linux_all) \cup Range(macos_all) : ~AvailableOn(machine, terminal)

\* C30: detect never returns the placeholder (Default on Linux, Auto on
\* macOS): whatever terminal is requested, whatever $TERMINAL holds and
\* whatever is installed, it returns None or a terminal with a binary or an
\* application that is installed, and None only where none is; so launch
\* never panics, and with no terminal installed it returns an error and
\* spawns nothing.
C30_DetectNeverPlaceholder ==
    /\ ret.op = "detect" =>
          /\ ret.result.some =>
                /\ ret.result.value # Placeholder(arg.os)
                /\ AvailableOn(arg, ret.result.value)
          /\ ~ret.result.some <=> NoneAvailable(arg)
    /\ ret.op = "launch" =>
          /\ ~ret.outcome.panicked
          /\ NoneAvailable(arg) =>
                /\ ~ret.outcome.result.ok
                /\ ret.outcome.spawned = <<>>
          /\ \A i \in DOMAIN ret.outcome.spawned :
                ret.outcome.spawned[i] \in arg.installed

\* launch has run with the placeholder requested and nothing installed that
\* the program knows, $TERMINAL naming a terminal: it returned an error.
C30_Witness ==
    /\ ret.op = "launch"
    /\ arg.os = "linux"
    /\ arg.self = "Default"
    /\ arg.term_env.some
    /\ arg.installed # {}
    /\ NoneAvailable(arg)
    /\ ~ret.outcome.panicked
    /\ ~ret.outcome.result.ok

====
